---- MODULE Spec2Model ----
(***************************************************************************)
(* A state-machine model of ipcator (include/ipcator.hpp): POSIX shared    *)
(* memory objects wrapped by Shared_Memory<creat, writable>, the coarse    *)
(* allocator ShM_Resource<set_t> that owns a set of creators, and the      *)
(* kernel state (the /dev/shm namespace, the objects, the mappings of each *)
(* process) that the calls shm_open, ftruncate, fstat, mmap, munmap and    *)
(* shm_unlink act on.                                                      *)
(***************************************************************************)
EXTENDS Integers, Sequences, FiniteSets, TLC

(***************************************************************************)
(* Bounds of the model and scaled program constants.                       *)
(***************************************************************************)
\* ::getpagesize(), scaled down from 4096.
PageSize == 2
\* Width of std::size_t in bits, scaled down from 64.
SizeBits == 5
\* Largest size passed to a creator or to allocate.
MaxSize == 2
\* Number of kernel objects that can exist at the same time.
MaxObjs == 2
\* Number of entries one ShM_Resource holds at most in the model.
MaxEntries == 2
\* Number of calls of generate_shm_UUName per process in the model.
MaxCnt == 3
\* Number of arenas in the address space of a process.
NumArenas == 2
\* Largest size a buffer or a pool requests from its upstream in the model.
MaxRegion == 5
\* wait_for(1s) over sleep_for(20ms): polls that fit in the wait, scaled down from 50.
WaitPolls == 2

Procs == {1, 2}
\* The Shared_Memory variables of the model: two creators and a writable
\* accessor in process 1, a read-only accessor in process 2.
Slots == {1, 2, 3, 4}
SlotProc(s) == IF s = 4 THEN 2 ELSE 1
SlotCreat(s) == s \in {1, 2}
SlotWritable(s) == s \in {1, 2, 3}
Bytes == {0, 1}
Sizes == 0 .. MaxSize
Offsets == 0 .. (MaxSize - 1)
ObjIds == 1 .. MaxObjs
CreatorNames == {"/a", "/b"}
\* "/x" is a name no creator ever uses.
AccessorNames == {"/a", "/x"}
Builds == {"debug", "release"}
\* A release build that also defines IPCATOR_OFAST, as the header recommends.
BuildsOfast == Builds \cup {"ofast"}
SetKinds == {"set", "unordered_set"}
\* The ShM_Resource variables of process 1: an ordered one and two unordered
\* ones.  A variable with no
\* entries stands for a default-constructed allocator as well as for one whose
\* lifetime has not begun or has ended: neither owns anything.
SetVars == SetKinds \cup {"unordered_set_2"}
using_ordered_set(k) == k = "set"
HashedVars == {k \in SetVars : ~using_ordered_set(k)}

NullPtr == 0
MAP_FAILED == -1
NoFd == 0
BadFd == -1

VARIABLES
    build,          \* whether NDEBUG is defined ("release") or not ("debug")
    alive,          \* alive[p]: process p has not been terminated
    objs,           \* the kernel's shared memory objects, by object id
    mm,             \* the mappings of all processes
    slot,           \* the Shared_Memory variables of the processes
    resources,      \* ShM_Resource::resources of the two allocators of process 1
    last_inserted,  \* ShM_Resource<std::unordered_set>::last_inserted
    cnt,            \* generate_shm_UUName's static atomic counter, per process
    buffer,         \* the Monotonic_ShM_Buffer of process 1
    pool,           \* the ShM_Pool of process 1
    threads,        \* the threads of process 1 that call a ShM_Pool<true>
    reader,         \* the ShM_Reader of process 2
    last            \* the operation that made the last step, and its outcome

vars == <<build, alive, objs, mm, slot, resources, last_inserted, cnt, buffer, pool,
          threads, reader, last>>

(***************************************************************************)
(* utils::ceil_to_page_size                                                *)
(***************************************************************************)
SizeMod == 2 ^ SizeBits

\* Mutant: a rounding that goes down to the page.
ceil_to_page_size_Floor(min_length) == (min_length \div PageSize) * PageSize

ceil_to_page_size(min_length) ==
    LET current_num_pages == min_length \div PageSize
        need_one_more_page == IF min_length % PageSize # 0 THEN 1 ELSE 0
    IN ((current_num_pages + need_one_more_page) * PageSize) % SizeMod

(***************************************************************************)
(* The kernel.  An object is live while it is linked under its name, or    *)
(* mapped by some process, or open through a file descriptor.              *)
(***************************************************************************)
ZeroData == [i \in Offsets |-> 0]
FreeObj == [live |-> FALSE, linked |-> FALSE, name |-> "", size |-> 0,
            data |-> ZeroData, cdead |-> FALSE]

\* Every mapping occupies one arena of the address space of its process.
ArenaSize == ceil_to_page_size(MaxRegion)
Arenas == 1 .. NumArenas
ArenaBase(a) == a * ArenaSize

\* The object linked under name n, or 0.
Lookup(os, n) ==
    LET S == {o \in ObjIds : os[o].live /\ os[o].linked /\ os[o].name = n}
    IN IF S = {} THEN 0 ELSE CHOOSE o \in S : TRUE

\* The mappings of process p that cover address a.
MapsAt(ms, p, a) ==
    {m \in ms : m.proc = p /\ m.base <= a /\ a < m.base + ceil_to_page_size(m.len)}

\* The object behind address a of process p, or 0.
ObjAt(ms, p, a) ==
    LET S == MapsAt(ms, p, a) IN IF S = {} THEN 0 ELSE (CHOOSE m \in S : TRUE).obj

\* File descriptors exist only inside a running constructor.
FdsOf(sl, o) == {s \in Slots : sl[s].fd = o}

\* Storage is reclaimed when nothing refers to the object any more.
Reap(os, ms, sl) ==
    [o \in ObjIds |->
        IF os[o].live /\ ~os[o].linked
           /\ {m \in ms : m.obj = o} = {} /\ FdsOf(sl, o) = {}
        THEN FreeObj ELSE os[o]]

\* ::shm_unlink(name): removes the name; fails (no effect) when it is not linked.
ShmUnlink(os, n) ==
    [o \in ObjIds |-> IF os[o].live /\ os[o].linked /\ os[o].name = n
                      THEN [os[o] EXCEPT !.linked = FALSE] ELSE os[o]]

\* ::munmap(addr, length) of process p: removes the pages of [addr, addr+length).
\* It fails (no effect) for an address that is not page-aligned, as MAP_FAILED is.
Munmap(ms, p, addr, length) ==
    IF addr < 0 \/ addr % PageSize # 0 \/ length = 0 THEN ms
    ELSE {m \in ms : ~(m.proc = p /\ m.base < addr + ceil_to_page_size(length)
                                  /\ addr < m.base + ceil_to_page_size(m.len))}

\* Arenas of process p that hold no mapping.
FreeArenas(ms, p) == {a \in Arenas : MapsAt(ms, p, ArenaBase(a)) = {}}

(***************************************************************************)
(* Shared_Memory<creat, writable>: a std::span (base, len) and a name.     *)
(* A slot is one variable of that type; pc says whether it is constructed  *)
(* ("live"), not constructed ("none"), or inside its constructor.          *)
(***************************************************************************)
EmptySlot == [pc |-> "none", base |-> NullPtr, len |-> 0, name |-> "",
              fd |-> NoFd, polls |-> 0, late |-> FALSE]

\* A Monotonic_ShM_Buffer that is not constructed: the fields of
\* std::pmr::monotonic_buffer_resource, the chunks it got from upstream, and the
\* last call (op, bytes, alignment) with the pointer it returned.
NoBuffer == [initial_size |-> 0, growth |-> 0, current_buf |-> NullPtr, avail |-> 0,
             next_buffer_size |-> 0, chunks |-> {}, op |-> "-", bytes |-> 0,
             alignment |-> 0, ret |-> NullPtr, blocks |-> <<>>]

\* A ShM_Pool that is not constructed: the option largest_required_pool_block
\* as the constructor hands it to the base class and as the base class adopts it
\* (options()), the chunks of blocks and the unpooled blocks it got from
\* upstream, the blocks handed out, how the base class keeps the free blocks
\* (lifo: a list of vacancies, else a bitset per chunk), the last call (op,
\* bytes) with the pointer it returned, and how far the last calls went through
\* a = allocate(s), deallocate(a, s), allocate(s).
NoPool == [option |-> 0, largest_required_pool_block |-> 0, chunks |-> {},
           unpooled |-> {}, live |-> {}, lifo |-> FALSE, vacancies |-> <<>>,
           op |-> "-", bytes |-> 0, ret |-> NullPtr, streak |-> 0]

\* The threads that call one ShM_Pool<true>: the owner of the mutex of the
\* base class (0: nobody), where each thread is in its call, the call, and the
\* blocks that allocate returned to the thread.
Threads == {1, 2}
NoCall == [op |-> "-", bytes |-> 0, ptr |-> NullPtr]
NoThreads == [mx |-> 0, pc |-> [t \in Threads |-> "idle"],
              call |-> [t \in Threads |-> NoCall], held |-> [t \in Threads |-> {}]]

\* A ShM_Reader that holds nothing: the cache (entries of name, span and
\* counter), the Iterator objects that are not destroyed (each with the name of
\* the entry whose counter it refers to, and its pointer), the number of
\* copies of Iterator objects made so far, and the last call (op, name, offset,
\* sizeof(T)) with its result.
NoReader == [cache |-> {}, borrows |-> {}, copies |-> 0, op |-> "-", name |-> "",
             off |-> 0, size |-> 0, ret |-> 0]

\* The Shared_Memory object held by a variable or by a set entry.
Region(base, len, name) == [base |-> base, len |-> len, name |-> name]
RegionOf(x) == Region(x.base, x.len, x.name)
LiveSlot(r) == [pc |-> "live", base |-> r.base, len |-> r.len, name |-> r.name,
                fd |-> NoFd, polls |-> 0, late |-> FALSE]

\* Mutants of ~Shared_Memory: a creator that does not unlink its name, and a
\* destructor that unlinks whatever the template argument creat is.
DtorObjs_NoUnlink(os, ms, p, creat, r) ==
    IF r.base = NullPtr \/ ~creat \/ ObjAt(ms, p, r.base) = 0 THEN os
    ELSE [os EXCEPT ![ObjAt(ms, p, r.base)].cdead = TRUE]

DtorObjs_AlwaysUnlink(os, ms, p, creat, r) ==
    IF r.base = NullPtr THEN os ELSE ShmUnlink(os, r.name)

\* ~Shared_Memory: the kernel objects after the destructor of region r ran.
\* cdead records that the creator of the object behind r was destroyed.
DtorObjs(os, ms, p, creat, r) ==
    IF r.base = NullPtr THEN os
    ELSE IF creat
         THEN LET o == ObjAt(ms, p, r.base)
                  os1 == ShmUnlink(os, r.name)
              IN IF o = 0 THEN os1 ELSE [os1 EXCEPT ![o].cdead = TRUE]
         ELSE os

\* ~Shared_Memory: the mappings after the destructor of region r ran.
DtorMm(ms, p, r) ==
    IF r.base = NullPtr THEN ms ELSE Munmap(ms, p, r.base, r.len)

\* Mutant: a move constructor that copies and leaves other as it was.
MoveCtor_Copy(other) == [self |-> other, other |-> other]

\* Shared_Memory(Shared_Memory&& other): the new object, and what is left in
\* other: an empty span and a moved-from name.
MoveCtor(other) == [self |-> other, other |-> Region(NullPtr, 0, "")]

\* All variables after a step: the processes in dead are terminated (their
\* mappings and descriptors vanish, no destructor runs), then storage is reaped.
Effect(sl, ms, os, rs, li, dead, l) ==
    LET sl2 == [s \in Slots |-> IF SlotProc(s) \in dead THEN EmptySlot ELSE sl[s]]
        ms2 == {m \in ms : m.proc \notin dead}
    IN /\ slot' = sl2
       /\ mm' = ms2
       /\ objs' = Reap(os, ms2, sl2)
       /\ resources' = IF 1 \in dead THEN [k \in SetVars |-> {}] ELSE rs
       /\ last_inserted' = li
       /\ alive' = [p \in Procs |-> alive[p] /\ p \notin dead]
       /\ last' = l
       /\ build' = build

\* last names the step where a claim has to tell it from others: the operation,
\* its two arguments, and the byte it stored or the pointer it returned.
Op(op, a, b, val) ==
    [op |-> op, a |-> a, b |-> b, val |-> val, name |-> "", other |-> ""]
\* The construction of a creator in slot s from (name, size).
OpCreate(s, name, size) == [Op("create", s, size, NullPtr) EXCEPT !.name = name]
NoOp == Op("-", 0, 0, NullPtr)

\* ::shm_open(name, O_CREAT|O_EXCL|O_RDWR, 0777): the descriptor (the object's id,
\* or -1 when the name is in use) and the kernel objects afterwards.
ShmOpenCreat(os, name) ==
    LET free == {o \in ObjIds : ~os[o].live}
        o == CHOOSE x \in free : \A y \in free : x <= y
    IN IF Lookup(os, name) # 0 THEN [fd |-> BadFd, objs |-> os]
       ELSE [fd |-> o,
             objs |-> [os EXCEPT ![o] = [live |-> TRUE, linked |-> TRUE, name |-> name,
                                         size |-> 0, data |-> ZeroData, cdead |-> FALSE]]]

\* map_shm of a creator after shm_open: ftruncate, assert(result_resize != -1),
\* assert(size), mmap, assert(addr != MAP_FAILED), close.  The result is what the
\* constructor makes of the returned address: span{addr, size} and the name.
\* With NDEBUG the asserts are gone and a failed mmap leaves MAP_FAILED as base.
MapCreator(os, ms, p, fd, name, size, bld) ==
    LET resized == fd # BadFd
        os1 == IF resized THEN [os EXCEPT ![fd].size = size] ELSE os
        canMap == fd # BadFd /\ size # 0
        aborts == bld = "debug" /\ ~canMap
    IN {[abort |-> aborts, objs |-> os1,
         mm |-> IF canMap THEN ms \cup {[proc |-> p, base |-> ArenaBase(a), len |-> size,
                                         obj |-> fd, writable |-> TRUE]}
                ELSE ms,
         reg |-> Region(IF canMap THEN ArenaBase(a) ELSE MAP_FAILED, size, name)]
        : a \in IF canMap THEN FreeArenas(ms, p) ELSE {0}}

\* Shared_Memory(name, size) requires(creat).
Creator(s, name, size) ==
    /\ alive[SlotProc(s)] /\ SlotCreat(s) /\ slot[s].pc = "none"
    /\ Lookup(objs, name) # 0 \/ \E o \in ObjIds : ~objs[o].live
    /\ LET opened == ShmOpenCreat(objs, name)
       IN \E out \in MapCreator(opened.objs, mm, SlotProc(s), opened.fd, name, size, build) :
            IF out.abort
            THEN Effect(slot, mm, out.objs, resources, last_inserted, {SlotProc(s)},
                        OpCreate(s, name, size))
            ELSE Effect([slot EXCEPT ![s] = LiveSlot(out.reg)], out.mm, out.objs,
                        resources, last_inserted, {},
                        OpCreate(s, name, size))
    /\ UNCHANGED <<cnt, buffer, pool, threads, reader>>

\* ~Shared_Memory of the variable in slot s.
Destroy(s) ==
    /\ alive[SlotProc(s)] /\ slot[s].pc = "live"
    /\ LET p == SlotProc(s)
           r == RegionOf(slot[s])
       IN Effect([slot EXCEPT ![s] = EmptySlot], DtorMm(mm, p, r),
                 DtorObjs(objs, mm, p, SlotCreat(s), r),
                 resources, last_inserted, {}, Op("dtor", s, 0, NullPtr))
    /\ UNCHANGED <<cnt, buffer, pool, threads, reader>>

\* Mutant: an accessor that maps whatever size fstat reports first.
MapAccessor_Unsized(os, ms, p, fd, name, writable) ==
    {[mm |-> ms \cup {[proc |-> p, base |-> ArenaBase(a), len |-> os[fd].size,
                       obj |-> fd, writable |-> writable]},
      reg |-> Region(ArenaBase(a), os[fd].size, name)] : a \in FreeArenas(ms, p)}

\* map_shm of an accessor once the descriptor fd is open: fstat until st_size is
\* not 0, then mmap of st_size bytes and close.  No result while the size is 0.
MapAccessor(os, ms, p, fd, name, writable) ==
    IF os[fd].size = 0 THEN {}
    ELSE {[mm |-> ms \cup {[proc |-> p, base |-> ArenaBase(a), len |-> os[fd].size,
                            obj |-> fd, writable |-> writable]},
           reg |-> Region(ArenaBase(a), os[fd].size, name)] : a \in FreeArenas(ms, p)}

\* The step of an accessor's constructor that gets the descriptor fd: it goes on to
\* the mapping, or stays in the fstat loop ("sizing") while the object's size is 0.
Opened(s, name, fd) ==
    LET p == SlotProc(s)
        maps == MapAccessor(objs, mm, p, fd, name, SlotWritable(s))
    IN IF maps = {}
       THEN Effect([slot EXCEPT ![s] = [EmptySlot EXCEPT !.pc = "sizing", !.name = name,
                                                        !.fd = fd]],
                   mm, objs, resources, last_inserted, {}, NoOp)
       ELSE \E out \in maps :
                Effect([slot EXCEPT ![s] = LiveSlot(out.reg)], out.mm, objs,
                       resources, last_inserted, {},
                       NoOp)

\* An object of that name whose creator was destroyed is still mapped somewhere.
CreatorGone(os, name) == \E o \in ObjIds : os[o].live /\ os[o].cdead /\ os[o].name = name

\* Shared_Memory(name) requires(!creat): map_shm starts the task that polls
\* shm_open (std::async without a launch policy) and waits for it for 1s.  A
\* deferred task is never ready: wait_for returns at once and map_shm throws, and
\* since map_shm is noexcept(!creat) the throw ends in std::terminate.
Accessor(s, name) ==
    /\ alive[SlotProc(s)] /\ ~SlotCreat(s) /\ slot[s].pc = "none"
    /\ \/ Effect(slot, mm, objs, resources, last_inserted, {SlotProc(s)},
                 NoOp)
       \/ IF Lookup(objs, name) # 0
          THEN Opened(s, name, Lookup(objs, name))
          ELSE Effect([slot EXCEPT ![s] = [EmptySlot EXCEPT !.pc = "opening", !.name = name,
                                                             !.late = CreatorGone(objs, name)]],
                      mm, objs, resources, last_inserted, {},
                      NoOp)
    /\ UNCHANGED <<cnt, buffer, pool, threads, reader>>

\* One iteration of the polling task: shm_open, and sleep_for(20ms) when it fails.
\* While the constructor waits ("opening") a descriptor makes the future ready.
\* After the timeout ("blocked": the future's destructor joins the task) the
\* task's return lets the exception go on, into std::terminate.
Poll(s) ==
    /\ alive[SlotProc(s)] /\ slot[s].pc \in {"opening", "blocked"}
    /\ LET fd == Lookup(objs, slot[s].name)
       IN IF fd # 0
          THEN IF slot[s].pc = "opening"
               THEN Opened(s, slot[s].name, fd)
               ELSE Effect(slot, mm, objs, resources, last_inserted, {SlotProc(s)},
                           NoOp)
          ELSE /\ slot[s].polls < (IF slot[s].pc = "opening" THEN WaitPolls ELSE WaitPolls + 1)
               /\ Effect([slot EXCEPT ![s].polls = @ + 1], mm, objs, resources,
                         last_inserted, {}, NoOp)
    /\ UNCHANGED <<cnt, buffer, pool, threads, reader>>

\* wait_for(1s) returns timeout: map_shm throws filesystem_error out of a noexcept
\* function.  std::terminate is called either at once, or after the stack is
\* unwound up to map_shm, which destroys the future and so joins the polling task.
Timeout(s) ==
    /\ alive[SlotProc(s)] /\ slot[s].pc = "opening" /\ slot[s].polls = WaitPolls
    /\ \/ Effect(slot, mm, objs, resources, last_inserted, {SlotProc(s)},
                 Op("timeout", s, 0, NullPtr))
       \/ Effect([slot EXCEPT ![s].pc = "blocked"], mm, objs, resources,
                 last_inserted, {}, Op("timeout", s, 0, NullPtr))
    /\ UNCHANGED <<cnt, buffer, pool, threads, reader>>

\* Shared_Memory t{std::move(s)}.
Move(s, t) ==
    /\ s # t /\ SlotProc(s) = SlotProc(t) /\ SlotCreat(s) = SlotCreat(t)
    /\ SlotWritable(s) = SlotWritable(t)
    /\ alive[SlotProc(s)] /\ slot[s].pc = "live" /\ slot[t].pc = "none"
    /\ LET m == MoveCtor(RegionOf(slot[s]))
       IN Effect([slot EXCEPT ![s] = LiveSlot(m.other), ![t] = LiveSlot(m.self)],
                 mm, objs, resources, last_inserted, {}, Op("move", s, t, NullPtr))
    /\ UNCHANGED <<cnt, buffer, pool, threads, reader>>

\* swap(s, t): std::swap<span> and std::swap of the names.
Swap(s, t) ==
    /\ s < t /\ SlotProc(s) = SlotProc(t) /\ SlotCreat(s) = SlotCreat(t)
    /\ SlotWritable(s) = SlotWritable(t)
    /\ alive[SlotProc(s)] /\ slot[s].pc = "live" /\ slot[t].pc = "live"
    /\ Effect([slot EXCEPT ![s] = slot[t], ![t] = slot[s]],
              mm, objs, resources, last_inserted, {}, Op("swap", s, t, NullPtr))
    /\ UNCHANGED <<cnt, buffer, pool, threads, reader>>

\* s = std::move(t): operator=(Shared_Memory other) move-constructs other from t,
\* swaps it with *this and destroys it on return.
Assign(s, t) ==
    /\ s # t /\ SlotProc(s) = SlotProc(t) /\ SlotCreat(s) = SlotCreat(t)
    /\ SlotWritable(s) = SlotWritable(t)
    /\ alive[SlotProc(s)] /\ slot[s].pc = "live" /\ slot[t].pc = "live"
    /\ LET p == SlotProc(s)
           m == MoveCtor(RegionOf(slot[t]))
           other == RegionOf(slot[s])
       IN Effect([slot EXCEPT ![s] = LiveSlot(m.self), ![t] = LiveSlot(m.other)],
                 DtorMm(mm, p, other), DtorObjs(objs, mm, p, SlotCreat(s), other),
                 resources, last_inserted, {}, Op("assign", s, t, NullPtr))
    /\ UNCHANGED <<cnt, buffer, pool, threads, reader>>

\* Mutant: a store that stays private to the mapping (MAP_PRIVATE).
Store_Private(os, ms, p, addr, v) ==
    [segv |-> {m \in MapsAt(ms, p, addr) : m.writable} = {}, objs |-> os]

\* A store through the span of a writable Shared_Memory: shm[off] = v.  The
\* mapping is MAP_SHARED; the address must be mapped writable, else the process
\* gets SIGSEGV.
Store(os, ms, p, addr, v) ==
    LET S == {m \in MapsAt(ms, p, addr) : m.writable}
        m == CHOOSE x \in S : TRUE
    IN IF S = {} THEN [segv |-> TRUE, objs |-> os]
       ELSE [segv |-> FALSE,
             objs |-> IF addr - m.base < os[m.obj].size
                      THEN [os EXCEPT ![m.obj].data[addr - m.base] = v] ELSE os]

Write(s, off, v) ==
    /\ alive[SlotProc(s)] /\ SlotWritable(s) /\ slot[s].pc = "live" /\ off < slot[s].len
    /\ LET st == Store(objs, mm, SlotProc(s), slot[s].base + off, v)
       IN Effect(slot, mm, st.objs, resources, last_inserted,
                 IF st.segv THEN {SlotProc(s)} ELSE {},
                 Op("write", s, off, v))
    /\ UNCHANGED <<cnt, buffer, pool, threads, reader>>

\* A load through the span: shm[off].  -1 stands for SIGSEGV.
Load(os, ms, p, addr) ==
    LET S == MapsAt(ms, p, addr)
        m == CHOOSE x \in S : TRUE
    IN IF S = {} THEN -1
       ELSE IF addr - m.base < os[m.obj].size THEN os[m.obj].data[addr - m.base] ELSE 0

InitState ==
    /\ alive = [p \in Procs |-> TRUE]
    /\ objs = [o \in ObjIds |-> FreeObj]
    /\ mm = {}
    /\ slot = [s \in Slots |-> EmptySlot]
    /\ resources = [k \in SetVars |-> {}]
    /\ last_inserted = [k \in HashedVars |-> NullPtr]
    /\ cnt = [p \in Procs |-> 0]
    /\ buffer = NoBuffer
    /\ pool = NoPool
    /\ threads = NoThreads
    /\ reader = NoReader
    /\ last = NoOp

Init == build \in Builds /\ InitState
\* The allocators are also built with IPCATOR_OFAST.
InitSet == build \in BuildsOfast /\ InitState

\* Lifetime of one object: a creator, a writable accessor in the creator's
\* process and a read-only accessor in another process.
Next ==
    \/ \E z \in Sizes : Creator(1, "/a", z)
    \/ \E s \in {3, 4}, n \in AccessorNames : Accessor(s, n)
    \/ \E s \in {3, 4} : Poll(s)
    \/ \E s \in {3, 4} : Timeout(s)
    \/ \E s \in {1, 3, 4} : Destroy(s)
    \/ \E s \in {1, 3}, off \in Offsets, v \in Bytes : Write(s, off, v)

Spec == Init /\ [][Next]_vars

\* Ownership: two creator variables of one process that are constructed, moved,
\* swapped, assigned and destroyed, and a read-only accessor in another process.
NextOwn ==
    \/ \E s \in {1, 2}, n \in CreatorNames, z \in Sizes : Creator(s, n, z)
    \/ Accessor(4, "/a")
    \/ Poll(4)
    \/ Timeout(4)
    \/ \E s \in {1, 2, 4} : Destroy(s)
    \/ \E s, t \in {1, 2} : Move(s, t)
    \/ \E s, t \in {1, 2} : Swap(s, t)
    \/ \E s, t \in {1, 2} : Assign(s, t)

SpecOwn == Init /\ [][NextOwn]_vars

(***************************************************************************)
(* ShM_Resource<set_t>: a set of creators, keyed by their base address.    *)
(* Process 1 has one allocator of each kind.                               *)
(***************************************************************************)
\* sizeof(std::size_t), and the width of the counter (std::atomic_uint), scaled
\* down from 32 bits but wider than the six digits of the suffix.
SizeofSizeT == 8
UIntBits == 20
UIntMod == 2 ^ UIntBits
len_name == 31 - SizeofSizeT
prefix == "ipcator"
\* std::format("{:06}", n): the digits of n, padded with zeros to six at least.
Suffix(n) ==
    LET d == ToString(n)
    IN IF Len(d) >= 6 THEN d ELSE SubSeq("000000", 1, 6 - Len(d)) \o d
\* The characters a process drew from std::mt19937{std::random_device{}()}.
RandomChars == <<"q7Zk0Rt3LmXw9bCe5HsUy1Gd", "B2nVp8Jf4TaKo6WiMz0cQxE3">>
\* The static infix: as many characters as the name lacks to be len_name long.
Infix(p) == SubSeq(RandomChars[p], 1, len_name - Len("/" \o prefix \o "." \o "." \o Suffix(1)))
\* generate_shm_UUName() in process p when the counter is c.
generate_shm_UUName(p, c) ==
    "/" \o prefix \o "." \o Infix(p) \o "." \o Suffix((1 + c) % UIntMod)

\* Mutant: an emplace that drops the elements the set had.
Emplace_Clear(rs, r) == [set |-> {r}, ok |-> TRUE]

\* resources.emplace(name, size) once the element r is constructed: it is not
\* inserted when the set has an element with an equivalent key (the same base).
Emplace(rs, r) ==
    IF \E x \in rs : x.base = r.base THEN [set |-> rs, ok |-> FALSE]
    ELSE [set |-> rs \cup {r}, ok |-> TRUE]

\* Mutant: an extract that leaves the element in the set.
Extract_None(rs, area) == rs

\* resources.extract(area): the set without the element whose base is area.
Extract(rs, area) == {x \in rs : x.base # area}

\* The step label of an operation of the allocator of kind k.
OpSetAligned(op, k, size, alignment, ptr) == [Op(op, alignment, size, ptr) EXCEPT !.name = k]
OpSet(op, k, size, ptr) == OpSetAligned(op, k, size, 0, ptr)

\* Mutant: an allocate that never rejects an alignment.
TooLargeAlignment_Never(bld, alignment) == FALSE

\* do_allocate throws TooLargeAlignment: the alignment is more than a page and
\* the throw is not compiled out by IPCATOR_OFAST.
TooLargeAlignment(bld, alignment) == alignment > PageSize /\ bld # "ofast"

\* this->last_inserted = std::to_address(inserted), in the unordered kind only.
SetLastInserted(li, k, ptr) == IF using_ordered_set(k) THEN li ELSE [li EXCEPT ![k] = ptr]

Alignments == {1, PageSize, 2 * PageSize}

\* ShM_Resource<set_t>::do_allocate(size, alignment) of the allocator of kind k.
do_allocate(k, size, alignment) ==
    LET p == 1
        name == generate_shm_UUName(p, cnt[p])
        opened == ShmOpenCreat(objs, name)
    IN
    /\ alive[p]
    /\ IF TooLargeAlignment(build, alignment)
       THEN /\ Effect(slot, mm, objs, resources, last_inserted, {},
                      OpSetAligned("TooLargeAlignment", k, size, alignment, NullPtr))
            /\ UNCHANGED cnt
       ELSE /\ cnt[p] < MaxCnt /\ Cardinality(resources[k]) < MaxEntries
            /\ \E o \in ObjIds : ~objs[o].live
            /\ cnt' = [cnt EXCEPT ![p] = (@ + 1) % UIntMod]
            /\ \E out \in MapCreator(opened.objs, mm, p, opened.fd, name, size, build) :
                 LET ins == Emplace(resources[k], out.reg)
                     kept == CHOOSE x \in ins.set : x.base = out.reg.base
                 IN
                 IF out.abort \/ (~ins.ok /\ build = "debug")
                 THEN Effect(slot, mm, out.objs, resources, last_inserted, {p},
                             OpSetAligned("allocate", k, size, alignment, NullPtr))
                 ELSE IF ~ins.ok
                 THEN \* the constructed element is destroyed; [[assume(ok)]] is false
                      \/ Effect(slot, DtorMm(out.mm, p, out.reg),
                                DtorObjs(out.objs, out.mm, p, TRUE, out.reg), resources,
                                SetLastInserted(last_inserted, k, kept.base),
                                {}, OpSetAligned("allocate", k, size, alignment, kept.base))
                      \/ Effect(slot, mm, out.objs, resources, last_inserted, {p},
                                OpSetAligned("allocate", k, size, alignment, NullPtr))
                 ELSE Effect(slot, out.mm, out.objs, [resources EXCEPT ![k] = ins.set],
                             SetLastInserted(last_inserted, k, out.reg.base),
                             {}, OpSetAligned("allocate", k, size, alignment, out.reg.base))

\* The assertion of do_deallocate on the size it is given for the Region shm.
SizeAsserted(shm, size) == size <= shm.len /\ shm.len <= ceil_to_page_size(size)

\* ShM_Resource<set_t>::do_deallocate(area, size, alignment).  extract() of an
\* address that is no element's base gives an empty node handle, and value() of
\* it is undefined: the process crashes, or goes on with nothing released.
do_deallocate(k, area, size, alignment) ==
    LET p == 1
        found == {x \in resources[k] : x.base = area}
        whatcanisay_shm_out == CHOOSE x \in found : TRUE
        crash == Effect(slot, mm, objs, resources, last_inserted, {p},
                        OpSet("deallocate", k, size, area))
    IN
    /\ alive[p]
    /\ IF build = "debug" /\ alignment > PageSize THEN crash
       ELSE IF found = {}
       THEN \/ crash
            \/ Effect(slot, mm, objs, resources, last_inserted, {},
                      OpSet("deallocate", k, size, area))
       ELSE IF build = "debug" /\ ~SizeAsserted(whatcanisay_shm_out, size)
       THEN crash
       ELSE Effect(slot, DtorMm(mm, p, whatcanisay_shm_out),
                   DtorObjs(objs, mm, p, TRUE, whatcanisay_shm_out),
                   [resources EXCEPT ![k] = Extract(@, area)], last_inserted, {},
                   OpSet("deallocate", k, size, area))
    /\ UNCHANGED cnt

Areas == {ArenaBase(a) : a \in Arenas} \cup {MAP_FAILED}

\* The two allocators of process 1, used through allocate and deallocate.
NextSet ==
    \/ \E k \in SetKinds, z \in Sizes, al \in Alignments :
          do_allocate(k, z, al) /\ UNCHANGED <<buffer, pool, threads, reader>>
    \/ \E k \in SetKinds, area \in Areas, z \in Sizes \ {0}, al \in Alignments :
          do_deallocate(k, area, z, al) /\ UNCHANGED <<buffer, pool, threads, reader>>

SpecSet == InitSet /\ [][NextSet]_vars

(***************************************************************************)
(* ShM_Resource<set_t>: find_arena, and the operations on whole allocators *)
(* (move, converting move, swap, assignment, destruction).                 *)
(***************************************************************************)
\* The addresses an object pointer is drawn from.
Addrs == 1 .. (ArenaBase(NumArenas) + ArenaSize)

\* A pointer as the unsigned integer it is compared as: MAP_FAILED, (void *)-1, is
\* the largest address.
AsUIntPtr(ptr) == IF ptr < 0 THEN SizeMod + ptr ELSE ptr

\* find_arena: the lambda obj_in_shm.
obj_in_shm(shm, obj) ==
    AsUIntPtr(shm.base) <= obj /\ obj + 1 <= AsUIntPtr(shm.base) + shm.len

\* --resources.upper_bound(obj): the element with the largest base that is not
\* above obj; none when upper_bound is cbegin.
upper_bound_prev(rs, obj) ==
    {x \in rs : /\ AsUIntPtr(x.base) <= obj
                /\ \A y \in rs : AsUIntPtr(y.base) <= obj => AsUIntPtr(y.base) <= AsUIntPtr(x.base)}

FindOutcome(kind, r) == [kind |-> kind, reg |-> r]

\* The outcomes of find_arena(obj) on the allocator k that holds rs and whose
\* last_inserted (unordered kind) is li.  *last_inserted is read without a test:
\* when it designates no element of the set (it was never assigned, or its element
\* was deallocated or moved away) the read is undefined: the process crashes, or
\* what is read contains obj and is returned, or it does not and the scan follows.
find_arena_result(k, rs, li, obj) ==
    LET scan == {x \in rs : obj_in_shm(x, obj)}
        found == IF scan = {} THEN {FindOutcome("invalid_argument", Region(NullPtr, 0, ""))}
                 ELSE {FindOutcome("region", x) : x \in scan}
    IN IF using_ordered_set(k)
       THEN LET shm == upper_bound_prev(rs, obj)
            IN IF \E x \in shm : obj_in_shm(x, obj)
               THEN {FindOutcome("region", x) : x \in shm}
               ELSE {FindOutcome("invalid_argument", Region(NullPtr, 0, ""))}
       ELSE LET pointee == {x \in rs : x.base = li}
            IN IF pointee = {}
               THEN {FindOutcome("crash", Region(NullPtr, 0, "")),
                     FindOutcome("region", Region(li, 0, ""))} \cup found
               ELSE IF \E x \in pointee : obj_in_shm(x, obj)
               THEN {FindOutcome("region", x) : x \in pointee}
               ELSE found

\* The step label of find_arena(obj) on k: the base and the length of the
\* Region returned, or the exception.
OpFind(k, obj, out) ==
    [Op(IF out.kind = "invalid_argument" THEN "invalid_argument" ELSE "find_arena",
        obj, out.reg.len, out.reg.base) EXCEPT !.name = k]

\* ShM_Resource<set_t>::find_arena(obj) of the allocator k.
find_arena(k, obj) ==
    /\ alive[1]
    /\ \E out \in find_arena_result(k, resources[k],
                                    IF using_ordered_set(k) THEN NullPtr
                                    ELSE last_inserted[k], obj) :
          Effect(slot, mm, objs, resources, last_inserted,
                 IF out.kind = "crash" THEN {1} ELSE {}, OpFind(k, obj, out))
    /\ UNCHANGED <<cnt, buffer, pool, threads, reader>>

\* The step label of an operation on the allocator k with the allocator j.
OpRes(op, k, j) == [Op(op, 0, 0, NullPtr) EXCEPT !.name = k, !.other = j]

\* The step label of an operation that destroys the n elements k held.
OpDrain(op, k, j, n) == [OpRes(op, k, j) EXCEPT !.b = n]

\* Mutant: a set that forgets its elements without destroying them.
Drain_Leak(os, ms, p, rs) == [objs |-> os, mm |-> ms]

\* The destructor of the set rs: the destructor of each of its elements.
RECURSIVE Drain(_, _, _, _)
Drain(os, ms, p, rs) ==
    IF rs = {} THEN [objs |-> os, mm |-> ms]
    ELSE LET r == CHOOSE x \in rs : TRUE
         IN Drain(DtorObjs(os, ms, p, TRUE, r), DtorMm(ms, p, r), p, rs \ {r})

\* Mutant: a move constructor that leaves last_inserted unassigned.
ResourceMoveCtor_NoLast(rs, li, k, j) ==
    [resources |-> [rs EXCEPT ![k] = rs[j], ![j] = {}], last_inserted |-> li]

\* ShM_Resource(ShM_Resource&& other), this being k and other j: the set is
\* moved, which leaves other empty, and last_inserted is copied.
ResourceMoveCtor(rs, li, k, j) ==
    [resources |-> [rs EXCEPT ![k] = rs[j], ![j] = {}],
     last_inserted |-> IF using_ordered_set(k) THEN li ELSE [li EXCEPT ![k] = li[j]]]

\* Mutant: a converting constructor that takes only one element over.
ConvertCtor_One(os, ms, other_resources, acc) ==
    LET x == CHOOSE x \in other_resources : TRUE
        rest == Drain(os, ms, 1, other_resources \ {x})
    IN IF other_resources = {} THEN [resources |-> acc, objs |-> os, mm |-> ms]
       ELSE [resources |-> {x}, objs |-> rest.objs, mm |-> rest.mm]

\* ShM_Resource(ShM_Resource<std::unordered_set>&& other): each element is
\* extracted from other's set and move-constructed into the new set; what is
\* left in the node handle is destroyed.
RECURSIVE ConvertCtor(_, _, _, _)
ConvertCtor(os, ms, other_resources, acc) ==
    IF other_resources = {} THEN [resources |-> acc, objs |-> os, mm |-> ms]
    ELSE LET x == CHOOSE x \in other_resources : TRUE
             moved == MoveCtor(x)
         IN ConvertCtor(DtorObjs(os, ms, 1, TRUE, moved.other), DtorMm(ms, 1, moved.other),
                        Extract(other_resources, x.base), Emplace(acc, moved.self).set)

\* Whether an allocator of the type of k can be constructed from an rvalue of
\* the type of j.
Constructible(k, j) ==
    k # j /\ (using_ordered_set(k) = using_ordered_set(j) \/ using_ordered_set(k))

\* The allocator k after it was constructed from std::move(j): by the move
\* constructor for the same type, by the converting constructor otherwise.
ConstructFrom(os, ms, rs, li, k, j) ==
    IF using_ordered_set(k) = using_ordered_set(j)
    THEN LET c == ResourceMoveCtor(rs, li, k, j)
         IN [resources |-> c.resources, last_inserted |-> c.last_inserted,
             objs |-> os, mm |-> ms]
    ELSE LET c == ConvertCtor(os, ms, rs[j], {})
         IN [resources |-> [rs EXCEPT ![k] = c.resources, ![j] = {}],
             last_inserted |-> li, objs |-> c.objs, mm |-> c.mm]

\* `ShM_Resource k{std::move(j)}`: k is a variable whose lifetime begins.
MoveResource(k, j) ==
    /\ alive[1] /\ Constructible(k, j) /\ resources[k] = {}
    /\ LET c == ConstructFrom(objs, mm, resources, last_inserted, k, j)
       IN Effect(slot, c.mm, c.objs, c.resources, c.last_inserted, {},
                 OpRes(IF using_ordered_set(k) = using_ordered_set(j)
                       THEN "move" ELSE "convert", k, j))
    /\ UNCHANGED <<cnt, buffer, pool, threads, reader>>

\* swap(a, b): the sets are exchanged, and last_inserted in the unordered kind.
SwapResource(a, b) ==
    /\ alive[1] /\ a # b /\ using_ordered_set(a) = using_ordered_set(b)
    /\ Effect(slot, mm, objs, [resources EXCEPT ![a] = resources[b], ![b] = resources[a]],
              IF using_ordered_set(a) THEN last_inserted
              ELSE [last_inserted EXCEPT ![a] = last_inserted[b], ![b] = last_inserted[a]],
              {}, OpRes("swap", a, b))
    /\ UNCHANGED <<cnt, buffer, pool, threads, reader>>

\* `k = std::move(j)`: operator=(ShM_Resource other) constructs other from j,
\* swaps it with *this and destroys it with what *this held.
AssignResource(k, j) ==
    /\ alive[1] /\ Constructible(k, j)
    /\ LET held == resources[k]
           c == ConstructFrom(objs, mm, [resources EXCEPT ![k] = {}], last_inserted, k, j)
           d == Drain(c.objs, c.mm, 1, held)
       IN Effect(slot, d.mm, d.objs, c.resources, c.last_inserted, {},
                 OpDrain("assign", k, j, Cardinality(held)))
    /\ UNCHANGED <<cnt, buffer, pool, threads, reader>>

\* `k = {}`: other is default-constructed, so that its last_inserted, which the
\* swap hands to *this, is indeterminate.
AssignDefault(k) ==
    /\ alive[1]
    /\ LET d == Drain(objs, mm, 1, resources[k])
       IN Effect(slot, d.mm, d.objs, [resources EXCEPT ![k] = {}],
                 IF using_ordered_set(k) THEN last_inserted
                 ELSE [last_inserted EXCEPT ![k] = NullPtr], {},
                 OpDrain("assign", k, "{}", Cardinality(resources[k])))
    /\ UNCHANGED <<cnt, buffer, pool, threads, reader>>

\* ~ShM_Resource of the variable k: the set destroys its elements.  A variable
\* of that name that is constructed afterwards has an indeterminate last_inserted.
DestroyResource(k) ==
    /\ alive[1]
    /\ LET d == Drain(objs, mm, 1, resources[k])
       IN Effect(slot, d.mm, d.objs, [resources EXCEPT ![k] = {}],
                 IF using_ordered_set(k) THEN last_inserted
                 ELSE [last_inserted EXCEPT ![k] = NullPtr], {},
                 OpDrain("destroy", k, "", Cardinality(resources[k])))
    /\ UNCHANGED <<cnt, buffer, pool, threads, reader>>

\* One allocator of each kind: allocate of a size of at least one byte,
\* deallocate and find_arena.
NextFind ==
    \/ \E k \in SetKinds, z \in Sizes \ {0} :
          do_allocate(k, z, 1) /\ UNCHANGED <<buffer, pool, threads, reader>>
    \/ \E k \in SetKinds, a \in Arenas, z \in Sizes \ {0} :
          do_deallocate(k, ArenaBase(a), z, 1) /\ UNCHANGED <<buffer, pool, threads, reader>>
    \/ \E k \in SetKinds, obj \in Addrs : find_arena(k, obj)

SpecFind == InitSet /\ [][NextFind]_vars

\* All allocators: allocate, deallocate, and the operations on whole allocators.
NextRes ==
    \/ \E k \in SetVars, z \in Sizes \ {0} :
          do_allocate(k, z, 1) /\ UNCHANGED <<buffer, pool, threads, reader>>
    \/ \E k \in SetVars, a \in Arenas, z \in Sizes \ {0} :
          do_deallocate(k, ArenaBase(a), z, 1) /\ UNCHANGED <<buffer, pool, threads, reader>>
    \/ \E k, j \in SetVars : MoveResource(k, j)
    \/ \E k, j \in SetVars : SwapResource(k, j)
    \/ \E k, j \in SetVars : AssignResource(k, j)
    \/ \E k \in SetVars : AssignDefault(k)
    \/ \E k \in SetVars : DestroyResource(k)

SpecRes == InitSet /\ [][NextRes]_vars

(***************************************************************************)
(* Monotonic_ShM_Buffer: a std::pmr::monotonic_buffer_resource whose       *)
(* upstream is a ShM_Resource<std::unordered_set> that the buffer owns.    *)
(* The base class is modelled as the C++ standard specifies it and as      *)
(* libstdc++ implements it: a chunk ends with its bookkeeping header.      *)
(***************************************************************************)
\* The allocator that stands for the upstream `new ShM_Resource<std::unordered_set>`.
BufferUpstream == "unordered_set"
\* sizeof of the header that the base class keeps at the end of each chunk,
\* scaled down.
ChunkHeader == 1
\* The growth factor of next_buffer_size, in halves: it is implementation-defined,
\* 1.5 in libstdc++ and 2 elsewhere.
GrowthFactors == {3, 4}
InitialSizes == {1, PageSize + 1}
BufferBytes == 0 .. (MaxSize + 1)
\* The pointers that are passed to deallocate: the first bytes of each arena.
BufferAreas == {ArenaBase(a) + d : a \in Arenas, d \in {0, 1}}

Max(a, b) == IF a >= b THEN a ELSE b

\* monotonic_buffer_resource{ceil_to_page_size(initial_size), upstream}: no
\* buffer yet, and next_buffer_size is the initial size.
ConstructedBuffer(initial_size, growth) ==
    [NoBuffer EXCEPT !.initial_size = ceil_to_page_size(initial_size),
                     !.growth = growth,
                     !.next_buffer_size = ceil_to_page_size(initial_size),
                     !.op = "ctor"]

\* Monotonic_ShM_Buffer(initial_size), with a new upstream whose last_inserted
\* is indeterminate.
Monotonic_ShM_Buffer(initial_size, growth) ==
    /\ alive[1] /\ buffer.initial_size = 0 /\ resources[BufferUpstream] = {}
    /\ buffer' = ConstructedBuffer(initial_size, growth)
    /\ Effect(slot, mm, objs, resources,
              [last_inserted EXCEPT ![BufferUpstream] = NullPtr], {}, last)
    /\ UNCHANGED <<cnt, pool, threads, reader>>

\* Mutant: a std::align that leaves the pointer as it is.
StdAlign_Unaligned(b, bytes, alignment) ==
    IF b.current_buf # NullPtr /\ bytes <= b.avail THEN b.current_buf ELSE NullPtr

\* std::align(alignment, bytes, current_buf, avail): the aligned pointer when
\* the block fits in what is left of the current chunk, NullPtr otherwise.
StdAlign(b, bytes, alignment) ==
    LET q == ((b.current_buf + alignment - 1) \div alignment) * alignment
    IN IF b.current_buf # NullPtr /\ (q - b.current_buf) + bytes <= b.avail
       THEN q ELSE NullPtr

\* Mutant: a buffer that never grows the size of its next chunk.
NextBufferSize_Same(b) == b.next_buffer_size

\* next_buffer_size after a chunk was obtained.
NextBufferSize(b) == (b.next_buffer_size * b.growth) \div 2

\* Mutant: a buffer that serves a block from its first chunk whatever is left.
Bump_First(b, q, bytes) ==
    LET first == CHOOSE c \in b.chunks : \A d \in b.chunks : c.base <= d.base
    IN [b EXCEPT !.op = "allocate", !.bytes = bytes, !.ret = first.base]

\* The buffer with the call that was made last.
BufferCall(b, op, bytes, alignment, ret) ==
    [b EXCEPT !.op = op, !.bytes = bytes, !.alignment = alignment, !.ret = ret]

\* The buffer after the block [q, q + bytes) of the current chunk was handed out.
Bump(b, q, bytes) ==
    [b EXCEPT !.avail = @ - (q - b.current_buf) - bytes, !.current_buf = q + bytes,
              !.op = "allocate", !.bytes = bytes, !.ret = q]

\* Mutant: a buffer that takes the size of a chunk without its header.
NewBuffer_Usable(b, area, size) ==
    [b EXCEPT !.current_buf = area, !.avail = size - ChunkHeader,
              !.next_buffer_size = (b.next_buffer_size * b.growth) \div 2,
              !.chunks = @ \cup {[base |-> area, size |-> size - ChunkHeader]}]

\* The buffer after upstream returned the chunk [area, area + size).
NewBuffer(b, area, size) ==
    [b EXCEPT !.current_buf = area, !.avail = size - ChunkHeader,
              !.next_buffer_size = NextBufferSize(b),
              !.chunks = @ \cup {[base |-> area, size |-> size]}]

\* The buffer b after a call of allocate, with the block that the call returned
\* added to the blocks handed out since the last release.
HandedOut(b, alignment) ==
    [b EXCEPT !.alignment = alignment,
              !.blocks = Append(@, [ptr |-> b.ret, bytes |-> b.bytes,
                                    alignment |-> alignment])]

\* Monotonic_ShM_Buffer::do_allocate(size, alignment), that is the base class's:
\* the block is cut from the current chunk when it fits; otherwise a chunk of
\* max(bytes, next_buffer_size) and the header is requested from upstream, which
\* may throw, and the block is cut from its beginning.
Monotonic_do_allocate(size, alignment) ==
    LET bytes == IF size = 0 THEN 1 ELSE size
        q == StdAlign(buffer, bytes, alignment)
        n == Max(bytes, buffer.next_buffer_size) + ChunkHeader
    IN
    /\ alive[1] /\ buffer.initial_size # 0
    /\ IF q # NullPtr
       THEN /\ buffer' = HandedOut(Bump(buffer, q, bytes), alignment)
            /\ Effect(slot, mm, objs, resources, last_inserted, {}, last)
            /\ UNCHANGED cnt
       ELSE /\ n <= MaxRegion
            /\ do_allocate(BufferUpstream, n, alignment)
            /\ buffer' = IF last'.op = "allocate" /\ last'.val # NullPtr
                         THEN HandedOut(Bump(NewBuffer(buffer, last'.val, n), last'.val,
                                              bytes), alignment)
                         ELSE BufferCall(buffer, "bad_alloc", bytes, alignment, NullPtr)
    /\ UNCHANGED <<pool, threads, reader>>

\* Mutant: a deallocate that takes the most recent block back.
MonotonicDeallocate_Rewind(b, area, size, alignment) ==
    IF area + size = b.current_buf
    THEN [b EXCEPT !.current_buf = area, !.avail = @ + size] ELSE b

\* monotonic_buffer_resource::do_deallocate: its body is empty.
MonotonicDeallocate(b, area, size, alignment) == b

\* Monotonic_ShM_Buffer::do_deallocate(area, size, alignment).
Monotonic_do_deallocate(area, size, alignment) ==
    /\ alive[1] /\ buffer.initial_size # 0
    /\ buffer' = BufferCall(MonotonicDeallocate(buffer, area, size, alignment),
                            "deallocate", size, alignment, area)
    /\ Effect(slot, mm, objs, resources, last_inserted, {}, last)
    /\ UNCHANGED <<cnt, pool, threads, reader>>

\* The assertion on the size holds for each of the chunks that are given back.
ReleaseAsserted(rs, chunks) ==
    \A c \in chunks : \A x \in rs : x.base = c.base => SizeAsserted(x, c.size)

\* A failed assertion of upstream's do_deallocate inside release().
ReleaseAborts(k, chunks) == build = "debug" /\ ~ReleaseAsserted(resources[k], chunks)
ReleaseAbort(op) ==
    Effect(slot, mm, objs, resources, last_inserted, {1}, Op(op, 0, 0, NullPtr))

\* The base class gives each of its chunks back: upstream->deallocate(p, size,
\* alignment), which extracts the Region from upstream's set and destroys it.
RECURSIVE ReleaseBuffers(_, _, _, _)
ReleaseBuffers(os, ms, rs, chunks) ==
    IF chunks = {} THEN [objs |-> os, mm |-> ms, set |-> rs]
    ELSE LET c == CHOOSE x \in chunks : TRUE
             whatcanisay_shm_out == CHOOSE x \in rs : x.base = c.base
         IN ReleaseBuffers(DtorObjs(os, ms, 1, TRUE, whatcanisay_shm_out),
                           DtorMm(ms, 1, whatcanisay_shm_out),
                           Extract(rs, c.base), chunks \ {c})

\* Mutant: a release that keeps the size the next chunk had grown to.
ReleasedBuffer_KeepNext(b) ==
    [b EXCEPT !.current_buf = NullPtr, !.avail = 0, !.chunks = {}, !.blocks = <<>>]

\* The fields of the base class after release(): as they were at construction.
ReleasedBuffer(b) ==
    [b EXCEPT !.current_buf = NullPtr, !.avail = 0,
              !.next_buffer_size = b.initial_size, !.chunks = {}, !.blocks = <<>>]

\* Monotonic_ShM_Buffer::release(); the call is recorded with the number of
\* chunks it gave back.
Monotonic_release ==
    /\ alive[1] /\ buffer.initial_size # 0
    /\ LET d == ReleaseBuffers(objs, mm, resources[BufferUpstream], buffer.chunks)
       IN IF ReleaseAborts(BufferUpstream, buffer.chunks) THEN ReleaseAbort("release_abort")
          ELSE Effect(slot, d.mm, d.objs, [resources EXCEPT ![BufferUpstream] = d.set],
                      last_inserted, {}, last)
    /\ buffer' = BufferCall(ReleasedBuffer(buffer), "release",
                            Cardinality(buffer.chunks), 0, NullPtr)
    /\ UNCHANGED <<cnt, pool, threads, reader>>

\* ~Monotonic_ShM_Buffer: release(), then delete of the upstream.
Monotonic_dtor ==
    /\ alive[1] /\ buffer.initial_size # 0
    /\ LET d == ReleaseBuffers(objs, mm, resources[BufferUpstream], buffer.chunks)
           e == Drain(d.objs, d.mm, 1, d.set)
       IN IF ReleaseAborts(BufferUpstream, buffer.chunks) THEN ReleaseAbort("release_abort")
          ELSE Effect(slot, e.mm, e.objs, [resources EXCEPT ![BufferUpstream] = {}],
                      [last_inserted EXCEPT ![BufferUpstream] = NullPtr], {}, last)
    /\ buffer' = [NoBuffer EXCEPT !.op = "dtor"]
    /\ UNCHANGED <<cnt, pool, threads, reader>>

\* A buffer that is constructed, allocated from, released and destroyed.
NextMono ==
    \/ \E z \in InitialSizes, g \in GrowthFactors : Monotonic_ShM_Buffer(z, g)
    \/ \E z \in BufferBytes, al \in Alignments : Monotonic_do_allocate(z, al)
    \/ \E area \in BufferAreas, z \in Sizes \ {0} : Monotonic_do_deallocate(area, z, 1)
    \/ Monotonic_release
    \/ Monotonic_dtor

SpecMono == InitSet /\ [][NextMono]_vars

(***************************************************************************)
(* ShM_Pool<sync>: a std::pmr::(un)synchronized_pool_resource whose        *)
(* upstream is a ShM_Resource<std::set> that the pool owns.  The base      *)
(* class is modelled as the C++ standard specifies it: pools of blocks of  *)
(* one size each, replenished by chunks from upstream, and requests above  *)
(* largest_required_pool_block passed to upstream one by one.  Which free  *)
(* block a pool hands out is the library's choice: libc++ keeps a list of  *)
(* vacancies and takes its head, libstdc++ keeps a bitset per chunk and    *)
(* takes the first unset bit, of the last chunk first.  Both keep an idle  *)
(* chunk until release().  What the base class allocates from upstream for *)
(* its own bookkeeping is left out.                                        *)
(***************************************************************************)
\* The allocator that stands for the upstream `new ShM_Resource<std::set>`.
PoolUpstream == "set"
\* options.largest_required_pool_block as it is passed to the constructor.
PoolOptions == {0, 1, PageSize, PageSize + 1}
\* The block sizes of the pools, and the number of blocks of a chunk.
PoolBlockSizes == {1, PageSize}
BlocksPerChunk == 2
PoolBytes == 1 .. (MaxSize + 1)

\* The block size of the pool that serves blocks of bs bytes.
PoolBlock(bs) ==
    CHOOSE b \in PoolBlockSizes :
        b >= bs /\ \A c \in PoolBlockSizes : c >= bs => b <= c

\* The values that the base class may adopt for the option
\* largest_required_pool_block: a limit of its own when the option is zero or
\* above its largest block size, else the option rounded up to a block size.
PoolThresholds(option) ==
    IF option = 0 THEN PoolBlockSizes
    ELSE IF \A b \in PoolBlockSizes : b < option
         THEN {CHOOSE b \in PoolBlockSizes : \A c \in PoolBlockSizes : c <= b}
         ELSE {PoolBlock(option)}

\* ShM_Pool(options): the option is ceiled to a page and handed to the base
\* class; nothing is allocated.  lifo tells which library the base class comes
\* from.
ShM_Pool(largest_required_pool_block, lifo) ==
    /\ alive[1] /\ pool.op \in {"-", "dtor"} /\ resources[PoolUpstream] = {}
    /\ \E threshold \in PoolThresholds(ceil_to_page_size(largest_required_pool_block)) :
          pool' = [NoPool EXCEPT !.option = ceil_to_page_size(largest_required_pool_block),
                                 !.largest_required_pool_block = threshold,
                                 !.lifo = lifo,
                                 !.op = "ctor"]
    /\ Effect(slot, mm, objs, resources, last_inserted, {}, last)
    /\ UNCHANGED <<cnt, buffer, reader>>

\* The pool with the call that was made last.
PoolCall(pl, op, bytes, ret) ==
    [pl EXCEPT !.op = op, !.bytes = bytes, !.ret = ret,
               !.streak = IF op = "allocate"
                          THEN IF pl.streak = 2 /\ bytes = pl.bytes THEN 3 ELSE 1
                          ELSE IF /\ op = "deallocate" /\ pl.op = "allocate"
                                  /\ ret = pl.ret /\ bytes = pl.bytes
                               THEN 2 ELSE 0]

\* Mutant: blocks that begin one block after the chunk's.
BlocksOf_Beyond(c) == {c.base + i * c.block : i \in 1 .. BlocksPerChunk}

\* The blocks of the chunk c, and those that are not handed out.
BlocksOf(c) == {c.base + i * c.block : i \in 0 .. (BlocksPerChunk - 1)}
FreeBlocks(pl, c) == {q \in BlocksOf(c) : \A l \in pl.live : l.ptr # q}

\* The chunks of the pool of blocks of `block` bytes, and its free blocks.
ChunksOf(pl, block) == {c \in pl.chunks : c.block = block}
FreeOf(pl, block) == UNION {FreeBlocks(pl, c) : c \in ChunksOf(pl, block)}

Lowest(S) == CHOOSE x \in S : \A y \in S : x <= y

\* The free block that the pool of `block` bytes hands out: the first vacancy of
\* the list, or the first unset bit of the chunk at the highest address when it
\* has one, else of the first chunk that has one.
Reserve(pl, block) ==
    IF pl.lifo
    THEN LET i == Lowest({j \in 1 .. Len(pl.vacancies) : pl.vacancies[j].block = block})
         IN pl.vacancies[i].ptr
    ELSE LET cs == ChunksOf(pl, block)
             back == CHOOSE c \in cs : \A d \in cs : d.base <= c.base
             some == {c \in cs : FreeBlocks(pl, c) # {}}
             c == IF FreeBlocks(pl, back) # {} THEN back
                  ELSE CHOOSE x \in some : \A d \in some : x.base <= d.base
         IN Lowest(FreeBlocks(pl, c))

\* The pool after it handed out the free block q for size bytes.
Reserved(pl, q, size) ==
    [pl EXCEPT !.live = @ \cup {[ptr |-> q, bytes |-> size]},
               !.vacancies = SelectSeq(@, LAMBDA v : v.ptr # q)]

\* The pool after it got the chunk c from upstream and handed out its first
\* block; the other blocks are vacancies.
Replenished(pl, c, size) ==
    [pl EXCEPT !.chunks = @ \cup {c},
               !.live = @ \cup {[ptr |-> c.base, bytes |-> size]},
               !.vacancies = IF pl.lifo
                             THEN [i \in 1 .. (BlocksPerChunk - 1) |->
                                      [ptr |-> c.base + i * c.block, block |-> c.block]] \o @
                             ELSE @]

\* Mutant: a pool that forgets the block that is given back.
PutBack_Lost(pl, l, block) == pl

\* The pool after the block l of the pool of `block` bytes came back.
PutBack(pl, l, block) ==
    [pl EXCEPT !.live = @ \ {l},
               !.vacancies = IF pl.lifo THEN <<[ptr |-> l.ptr, block |-> block]>> \o @
                             ELSE @]

\* Mutant: a pool that passes blocks of largest_required_pool_block bytes on.
Pooled_Below(pl, bs) == bs < pl.largest_required_pool_block

\* Blocks of bs bytes are served by a pool, not passed on to upstream.
Pooled(pl, bs) == bs <= pl.largest_required_pool_block

\* ShM_Pool::do_allocate(size, alignment), that is the base class's: a block of a
\* pool, from a new chunk when the pool has no free block, or, above
\* largest_required_pool_block, a Region of its own.
Pool_do_allocate(size, alignment) ==
    LET bs == Max(size, alignment)
        pooled == Pooled(pool, bs)
        block == PoolBlock(bs)
        free == FreeOf(pool, block)
        n == IF pooled THEN BlocksPerChunk * block ELSE size
        got == last'.op = "allocate" /\ last'.val # NullPtr
    IN
    /\ alive[1] /\ pool.largest_required_pool_block # 0
    /\ IF pooled /\ free # {}
       THEN /\ LET q == Reserve(pool, block)
               IN pool' = PoolCall(Reserved(pool, q, size), "allocate", size, q)
            /\ Effect(slot, mm, objs, resources, last_inserted, {}, last)
            /\ UNCHANGED cnt
       ELSE /\ n <= MaxRegion
            /\ do_allocate(PoolUpstream, n, alignment)
            /\ pool' = IF ~got THEN PoolCall(pool, "bad_alloc", size, NullPtr)
                       ELSE PoolCall(
                              IF pooled
                              THEN Replenished(pool, [base |-> last'.val, size |-> n,
                                                      block |-> block], size)
                              ELSE [pool EXCEPT
                                      !.unpooled = @ \cup {[base |-> last'.val, size |-> n]},
                                      !.live = @ \cup {[ptr |-> last'.val, bytes |-> size]}],
                              "allocate", size, last'.val)
    /\ UNCHANGED <<buffer, reader>>

\* ShM_Pool::do_deallocate(area, size, alignment) of a block that allocate
\* returned for that size: the block goes back to its pool, whose chunk stays
\* with the pool; a block above largest_required_pool_block is given back to
\* upstream at once.
Pool_do_deallocate(area, size, alignment) ==
    LET l == [ptr |-> area, bytes |-> size]
        bs == Max(size, alignment)
        pooled == Pooled(pool, bs)
    IN
    /\ alive[1] /\ pool.largest_required_pool_block # 0 /\ l \in pool.live
    /\ IF pooled
       THEN /\ pool' = PoolCall(PutBack(pool, l, PoolBlock(bs)), "deallocate", size, area)
            /\ Effect(slot, mm, objs, resources, last_inserted, {}, last)
            /\ UNCHANGED cnt
       ELSE /\ do_deallocate(PoolUpstream, area, size, alignment)
            /\ pool' = PoolCall([pool EXCEPT !.live = @ \ {l},
                                             !.unpooled = {u \in @ : u.base # area}],
                                "deallocate", size, area)
    /\ UNCHANGED <<buffer, reader>>

\* Mutant: a release that gives only the chunks back.
PoolRegions_ChunksOnly(pl) == {[base |-> c.base, size |-> c.size] : c \in pl.chunks}

\* The chunks and the unpooled blocks as what is given back to upstream.
PoolRegions(pl) == {[base |-> c.base, size |-> c.size] : c \in pl.chunks} \cup pl.unpooled

\* ShM_Pool::release(): everything goes back to upstream; the call is recorded
\* with the number of Regions given back.
Pool_release ==
    /\ alive[1] /\ pool.largest_required_pool_block # 0
    /\ LET d == ReleaseBuffers(objs, mm, resources[PoolUpstream], PoolRegions(pool))
       IN IF ReleaseAborts(PoolUpstream, PoolRegions(pool)) THEN ReleaseAbort("release_abort")
          ELSE Effect(slot, d.mm, d.objs, [resources EXCEPT ![PoolUpstream] = d.set],
                      last_inserted, {}, last)
    /\ pool' = PoolCall([pool EXCEPT !.chunks = {}, !.unpooled = {}, !.live = {},
                                     !.vacancies = <<>>],
                        "release", Cardinality(PoolRegions(pool)), NullPtr)
    /\ UNCHANGED <<cnt, buffer, reader>>

\* ~ShM_Pool: release(), then delete of the upstream.
Pool_dtor ==
    /\ alive[1] /\ pool.largest_required_pool_block # 0
    /\ LET d == ReleaseBuffers(objs, mm, resources[PoolUpstream], PoolRegions(pool))
           e == Drain(d.objs, d.mm, 1, d.set)
       IN IF ReleaseAborts(PoolUpstream, PoolRegions(pool)) THEN ReleaseAbort("release_abort")
          ELSE Effect(slot, e.mm, e.objs, [resources EXCEPT ![PoolUpstream] = {}],
                      last_inserted, {}, last)
    /\ pool' = [NoPool EXCEPT !.op = "dtor"]
    /\ UNCHANGED <<cnt, buffer, reader>>

\* A pool that is constructed, allocated from, deallocated to, released and
\* destroyed.
NextPool ==
    \/ \E z \in PoolOptions, f \in BOOLEAN : ShM_Pool(z, f) /\ UNCHANGED threads
    \/ \E z \in PoolBytes : Pool_do_allocate(z, 1) /\ UNCHANGED threads
    \/ \E area \in Addrs, z \in PoolBytes :
          Pool_do_deallocate(area, z, 1) /\ UNCHANGED threads
    \/ Pool_release /\ UNCHANGED threads
    \/ Pool_dtor /\ UNCHANGED threads

SpecPool == InitSet /\ [][NextPool]_vars

(***************************************************************************)
(* ShM_Pool<true>: the base class is std::pmr::synchronized_pool_resource, *)
(* which may be called from several threads: each call runs under the      *)
(* mutex of the base class.  A call is split into the steps between which  *)
(* another thread could run if it were not for the mutex: taking the       *)
(* mutex, finding a free block, marking it used or asking upstream, and    *)
(* returning.                                                              *)
(***************************************************************************)
\* The sizes the threads ask for: one that is pooled and one that is not.
SyncBytes == {1, MaxSize + 1}
SyncOptions == {PageSize}

\* Mutant: a mutex that does not exclude anybody.
MutexFree_Always(th) == TRUE

\* Nobody holds the mutex of the base class.
MutexFree(th) == th.mx = 0

\* A step that changes nothing but threads.
ThreadStep ==
    /\ Effect(slot, mm, objs, resources, last_inserted, {}, last)
    /\ UNCHANGED <<cnt, buffer, pool, reader>>

\* Thread t calls allocate(size): do_allocate of the base class takes the mutex.
Sync_allocate(t, size) ==
    /\ alive[1] /\ pool.largest_required_pool_block # 0
    /\ threads.pc[t] = "idle" /\ MutexFree(threads)
    /\ threads' = [threads EXCEPT !.mx = t, !.pc[t] = "locked",
                                  !.call[t] = [op |-> "allocate", bytes |-> size,
                                               ptr |-> NullPtr]]
    /\ ThreadStep

\* Thread t calls deallocate(l.ptr, l.bytes) for a block l that it holds:
\* do_deallocate of the base class takes the mutex.
Sync_deallocate(t, l) ==
    /\ alive[1] /\ pool.largest_required_pool_block # 0
    /\ threads.pc[t] = "idle" /\ MutexFree(threads) /\ l \in threads.held[t]
    /\ threads' = [threads EXCEPT !.mx = t, !.pc[t] = "locked",
                                  !.call[t] = [op |-> "deallocate", bytes |-> l.bytes,
                                               ptr |-> l.ptr]]
    /\ ThreadStep

\* allocate of thread t looks for a free block of the pool: it finds one, or
\* has to ask upstream.
Sync_find(t) ==
    LET size == threads.call[t].bytes
        block == PoolBlock(size)
    IN
    /\ alive[1] /\ threads.pc[t] = "locked" /\ threads.call[t].op = "allocate"
    /\ threads' = IF Pooled(pool, size) /\ FreeOf(pool, block) # {}
                  THEN [threads EXCEPT !.pc[t] = "take",
                                       !.call[t].ptr = Reserve(pool, block)]
                  ELSE [threads EXCEPT !.pc[t] = "upstream"]
    /\ ThreadStep

\* allocate of thread t marks the block it found as used.
Sync_take(t) ==
    LET size == threads.call[t].bytes
        q == threads.call[t].ptr
    IN
    /\ alive[1] /\ threads.pc[t] = "take"
    /\ pool' = PoolCall(Reserved(pool, q, size), "allocate", size, q)
    /\ threads' = [threads EXCEPT !.pc[t] = "done"]
    /\ Effect(slot, mm, objs, resources, last_inserted, {}, last)
    /\ UNCHANGED <<cnt, buffer, reader>>

\* allocate of thread t gets a chunk, or a Region for the block alone, from
\* upstream.
Sync_upstream(t) ==
    /\ alive[1] /\ threads.pc[t] = "upstream"
    /\ Pool_do_allocate(threads.call[t].bytes, 1)
    /\ threads' = [threads EXCEPT !.pc[t] = "done", !.call[t].ptr = pool'.ret]

\* deallocate of thread t puts the block back, or gives its Region back to
\* upstream.
Sync_put(t) ==
    /\ alive[1] /\ threads.pc[t] = "locked" /\ threads.call[t].op = "deallocate"
    /\ Pool_do_deallocate(threads.call[t].ptr, threads.call[t].bytes, 1)
    /\ threads' = [threads EXCEPT !.pc[t] = "done"]

\* The call of thread t returns: the mutex is released, and the thread holds
\* the block that allocate returned, or no longer the one it gave back.
Sync_return(t) ==
    LET c == threads.call[t]
        l == [ptr |-> c.ptr, bytes |-> c.bytes]
    IN
    /\ alive[1] /\ threads.pc[t] = "done"
    /\ threads' = [threads EXCEPT
                     !.mx = IF @ = t THEN 0 ELSE @,
                     !.pc[t] = "idle",
                     !.held[t] = IF c.op = "deallocate" THEN @ \ {l}
                                 ELSE IF c.ptr = NullPtr THEN @ ELSE @ \cup {l}]
    /\ ThreadStep

\* Two threads that allocate from one ShM_Pool<true> and deallocate to it.
NextSync ==
    \/ \E z \in SyncOptions, f \in BOOLEAN : ShM_Pool(z, f) /\ UNCHANGED threads
    \/ \E t \in Threads, z \in SyncBytes : Sync_allocate(t, z)
    \/ \E t \in Threads : \E l \in threads.held[t] : Sync_deallocate(t, l)
    \/ \E t \in Threads : Sync_find(t)
    \/ \E t \in Threads : Sync_take(t)
    \/ \E t \in Threads : Sync_upstream(t)
    \/ \E t \in Threads : Sync_put(t)
    \/ \E t \in Threads : Sync_return(t)

SpecSync == InitSet /\ [][NextSync]_vars

(***************************************************************************)
(* ShM_Reader<writable>: a cache of accessors, each with a counter of the  *)
(* Iterator objects that read returned for it.  The reader lives in        *)
(* process 2; the creators of the names are variables of process 1.        *)
(***************************************************************************)
ReaderProc == 2
\* Number of Iterator objects alive at the same time in the model.
MaxBorrows == 2
BorrowIds == 1 .. MaxBorrows
\* Number of copies of Iterator objects made in the model.
MaxCopies == 1
ReaderNames == CreatorNames
\* The name of the next Iterator object: the first that is not in use.
FreshId(rd) ==
    LET free == {i \in BorrowIds : \A b \in rd.borrows : b.id # i}
    IN IF free = {} THEN 0 ELSE CHOOSE i \in free : \A j \in free : i <= j
\* sizeof(T) of read<T>, and the offsets passed to it.
TSizes == {1, 2}
ReadOffsets == Offsets

\* The reader with the call that was made last.
ReaderCall(rd, op, name, off, size, ret) ==
    [rd EXCEPT !.op = op, !.name = name, !.off = off, !.size = size, !.ret = ret]

\* Mutant: a lookup that finds nothing.
CacheFind_Miss(cache, name) == {}

\* this->cache.find(name): the entries whose key has that name.
CacheFind(cache, name) == {e \in cache : e.name = name}

\* this->cache.emplace(std::string{name}, 0): the key is constructed from the
\* name, which is the constructor of an accessor; the outcomes are the cache and
\* the mappings with the new entry, or the end of the process when map_shm
\* throws (the task of std::async is deferred, or the name does not show up in
\* time).  While the object has no size the constructor does not return.
CacheEmplace(cache, os, ms, name) ==
    LET fd == Lookup(os, name)
        dead == [dead |-> TRUE, cache |-> cache, mm |-> ms, base |-> NullPtr]
    IN IF fd = 0 THEN {dead}
       ELSE {dead} \cup
            {[dead |-> FALSE,
              cache |-> cache \cup {[name |-> name, base |-> out.reg.base,
                                    len |-> out.reg.len, cnt |-> 0]},
              mm |-> out.mm, base |-> out.reg.base]
             : out \in MapAccessor(os, ms, ReaderProc, fd, name, FALSE)}

\* ShM_Reader::select_shm(name): the entry found, else the entry emplaced.
select_shm(cache, os, ms, name) ==
    LET found == CacheFind(cache, name)
    IN IF found # {}
       THEN {[dead |-> FALSE, cache |-> cache, mm |-> ms,
              base |-> (CHOOSE e \in found : TRUE).base]}
       ELSE CacheEmplace(cache, os, ms, name)

\* The process of the reader ends in std::terminate.
ReaderTerminated(op, name, off, size) ==
    /\ Effect(slot, mm, objs, resources, last_inserted, {ReaderProc}, last)
    /\ reader' = ReaderCall(NoReader, op, name, off, size, NullPtr)

\* rd.select_shm(name).
Reader_select_shm(name) ==
    /\ alive[ReaderProc]
    /\ \E out \in select_shm(reader.cache, objs, mm, name) :
          IF out.dead THEN ReaderTerminated("terminate", name, 0, 0)
          ELSE /\ Effect(slot, out.mm, objs, resources, last_inserted, {}, last)
               /\ reader' = ReaderCall([reader EXCEPT !.cache = out.cache],
                                       "select_shm", name, 0, 0, out.base)
    /\ UNCHANGED <<cnt, buffer, pool, threads>>

\* The counter of a cache entry is a std::size_t.
CountUp(n) == (n + 1) % SizeMod
CountDown(n) == (n + SizeMod - 1) % SizeMod

\* Iterator(cnt_ref, pobj): ++cnt_ref, the counter of the entry mapped at base.
Counted(cache, base) ==
    {IF e.base = base THEN [e EXCEPT !.cnt = CountUp(@)] ELSE e : e \in cache}

\* rd.read<T>(shm_name, offset), with size = sizeof(T): the Iterator returned,
\* named id, refers to the counter of the entry and points to
\* std::data(shm) + offset.
Reader_read(name, offset, size, id) ==
    /\ alive[ReaderProc] /\ id = FreshId(reader)
    /\ \E out \in select_shm(reader.cache, objs, mm, name) :
          IF out.dead THEN ReaderTerminated("terminate", name, offset, size)
          ELSE /\ Effect(slot, out.mm, objs, resources, last_inserted, {}, last)
               /\ reader' = ReaderCall(
                                [reader EXCEPT
                                   !.cache = Counted(out.cache, out.base),
                                   !.borrows = @ \cup {[id |-> id, name |-> name,
                                                        base |-> out.base,
                                                        ptr |-> out.base + offset]}],
                                "read", name, offset, size, out.base + offset)
    /\ UNCHANGED <<cnt, buffer, pool, threads>>

\* The implicit copy constructor of Iterator copies cnt_ref and pobj; the
\* counter stays as it is.
CopyCounted(cache, base) == cache

\* Iterator copy{it}, or Iterator moved{std::move(it)}: Iterator declares a
\* destructor and no move constructor, so both are the implicit copy constructor.
Iterator_copy(id, new) ==
    /\ alive[ReaderProc] /\ new = FreshId(reader)
    /\ reader.copies < MaxCopies
    /\ \E b \in reader.borrows :
          /\ b.id = id
          /\ reader' = ReaderCall([reader EXCEPT
                                     !.copies = @ + 1,
                                     !.cache = CopyCounted(@, b.base),
                                     !.borrows = @ \cup {[b EXCEPT !.id = new]}],
                                  "copy", b.name, 0, 0, b.ptr)
    /\ Effect(slot, mm, objs, resources, last_inserted, {}, last)
    /\ UNCHANGED <<cnt, buffer, pool, threads>>

\* ~Iterator: --cnt_ref.  When the entry is no longer in the cache the
\* reference dangles: the store goes to freed memory, or ends the process.
Iterator_dtor(id) ==
    /\ alive[ReaderProc]
    /\ \E b \in reader.borrows :
          /\ b.id = id
          /\ IF \E e \in reader.cache : e.base = b.base
             THEN /\ reader' = ReaderCall(
                                  [reader EXCEPT
                                     !.cache = {IF e.base = b.base
                                                THEN [e EXCEPT !.cnt = CountDown(@)]
                                                ELSE e : e \in @},
                                     !.borrows = @ \ {b}],
                                  "~Iterator", b.name, 0, 0, b.ptr)
                  /\ Effect(slot, mm, objs, resources, last_inserted, {}, last)
             ELSE \/ /\ reader' = ReaderCall([reader EXCEPT !.borrows = @ \ {b}],
                                             "~Iterator", b.name, 0, 0, b.ptr)
                     /\ Effect(slot, mm, objs, resources, last_inserted, {}, last)
                  \/ ReaderTerminated("terminate", b.name, 0, 0)
    /\ UNCHANGED <<cnt, buffer, pool, threads>>

\* The predicate of std::erase_if in gc_: pair.second == 0.
Erasable(e) == e.cnt = 0

RECURSIVE UnmapAll(_, _)
\* The mappings after the destructors of the accessors in gone ran.
UnmapAll(ms, gone) ==
    IF gone = {} THEN ms
    ELSE LET e == CHOOSE x \in gone : TRUE
         IN UnmapAll(DtorMm(ms, ReaderProc, Region(e.base, e.len, e.name)), gone \ {e})

\* rd.gc_(): std::erase_if of the entries whose counter is 0; their keys are
\* destroyed, which unmaps them.  It returns the number of erased entries.
Reader_gc ==
    /\ alive[ReaderProc]
    /\ LET gone == {e \in reader.cache : Erasable(e)}
       IN /\ Effect(slot, UnmapAll(mm, gone), objs, resources, last_inserted, {}, last)
          /\ reader' = ReaderCall([reader EXCEPT !.cache = @ \ gone],
                                  "gc", "", 0, 0, Cardinality(gone))
    /\ UNCHANGED <<cnt, buffer, pool, threads>>

\* A reader in process 2 that reads from the regions that two creators of
\* process 1 make and destroy.
NextReader ==
    \/ \E z \in Sizes \ {0} : Creator(1, "/a", z)
    \/ Creator(2, "/b", MaxSize)
    \/ Destroy(1)
    \/ \E n \in ReaderNames : Reader_select_shm(n)
    \/ \E n \in ReaderNames, off \in ReadOffsets, z \in TSizes, id \in BorrowIds :
          Reader_read(n, off, z, id)
    \/ \E id, new \in BorrowIds : Iterator_copy(id, new)
    \/ \E id \in BorrowIds : Iterator_dtor(id)
    \/ Reader_gc

\* The build with assertions only.
InitDebug == build = "debug" /\ InitState

SpecReader == InitDebug /\ [][NextReader]_vars

(***************************************************************************)
(* generate_shm_UUName() called from the threads of process 1.  A call     *)
(* takes its number from the counter in one atomic step and formats the    *)
(* name in another.                                                        *)
(***************************************************************************)
\* The counter where the calls that are looked at begin: at the first call,
\* before the millionth call, and before the counter wraps around.
NameCounts == {0, 999998, UIntMod - 2}
\* The counter is at most MaxCnt calls after one of NameCounts.
NameWindow(c) == \E s \in NameCounts : (c + UIntMod - s) % UIntMod <= MaxCnt

\* cnt.fetch_add(1, std::memory_order_relaxed): the counter afterwards.
FetchAdd(c) == (c + 1) % UIntMod

\* The names that earlier calls returned and that the caller still holds.
EarlierNames(l) == IF l.op = "name" THEN {l.name, l.other} ELSE {""}

\* The call's first part in thread t: the suffix is made of the counter's value.
Name_fetch(t) ==
    /\ alive[1] /\ threads.pc[t] = "idle" /\ NameWindow(FetchAdd(cnt[1]))
    /\ threads' = [threads EXCEPT !.pc[t] = "fetched",
                                  !.call[t] = [op |-> "name", bytes |-> cnt[1],
                                               ptr |-> NullPtr]]
    /\ cnt' = [cnt EXCEPT ![1] = FetchAdd(@)]
    /\ Effect(slot, mm, objs, resources, last_inserted, {}, last)
    /\ UNCHANGED <<buffer, pool, reader>>

\* The call's second part: the name is put together and returned, unless
\* assert(full_name.length() == len_name) fails.
Name_format(t) ==
    LET c == threads.call[t].bytes
        full_name == generate_shm_UUName(1, c)
    IN
    /\ alive[1] /\ threads.pc[t] = "fetched" /\ threads.call[t].op = "name"
    /\ IF build = "debug" /\ Len(full_name) # len_name
       THEN /\ Effect(slot, mm, objs, resources, last_inserted, {1},
                      Op("name_abort", t, Len(full_name), c))
            /\ threads' = NoThreads
       ELSE /\ \E earlier \in EarlierNames(last) \ (IF last.op = "name" THEN {""} ELSE {}) :
                 Effect(slot, mm, objs, resources, last_inserted, {},
                        [Op("name", t, Len(full_name), c) EXCEPT !.name = full_name,
                                                                 !.other = earlier])
            /\ threads' = [threads EXCEPT !.pc[t] = "idle", !.call[t] = NoCall]
    /\ UNCHANGED <<cnt, buffer, pool, reader>>

\* UIntMod - 1 calls in a row whose names nobody keeps: one of them fails the
\* assertion on the length, and without assertions the counter ends one below
\* where it was.
Name_lap ==
    /\ alive[1] /\ \A t \in Threads : threads.pc[t] = "idle"
    /\ last.op = "name"
    /\ NameWindow((cnt[1] + UIntMod - 1) % UIntMod)
    /\ IF build = "debug"
       THEN /\ Effect(slot, mm, objs, resources, last_inserted, {1},
                      Op("name_abort", 0, 0, cnt[1]))
            /\ UNCHANGED cnt
       ELSE /\ Effect(slot, mm, objs, resources, last_inserted, {}, last)
            /\ cnt' = [cnt EXCEPT ![1] = (@ + UIntMod - 1) % UIntMod]
    /\ UNCHANGED <<buffer, pool, threads, reader>>

NextName ==
    \/ \E t \in Threads : Name_fetch(t)
    \/ \E t \in Threads : Name_format(t)
    \/ Name_lap

\* The calls begin at any of NameCounts.
InitName ==
    /\ build \in Builds
    /\ alive = [p \in Procs |-> TRUE]
    /\ objs = [o \in ObjIds |-> FreeObj]
    /\ mm = {}
    /\ slot = [s \in Slots |-> EmptySlot]
    /\ resources = [k \in SetVars |-> {}]
    /\ last_inserted = [k \in HashedVars |-> NullPtr]
    /\ cnt \in {[p \in Procs |-> IF p = 1 THEN c ELSE 0] : c \in NameCounts}
    /\ buffer = NoBuffer
    /\ pool = NoPool
    /\ threads = NoThreads
    /\ reader = NoReader
    /\ last = NoOp

SpecName == InitName /\ [][NextName]_vars

(***************************************************************************)
(* Properties.                                                             *)
(***************************************************************************)
AccessorSlots == {s \in Slots : ~SlotCreat(s)}

\* The object whose mapping the variable in slot s owns, or 0.
HeldObj(s) ==
    IF slot[s].pc = "live" /\ slot[s].base > 0
    THEN ObjAt(mm, SlotProc(s), slot[s].base) ELSE 0

\* The variables and set entries that keep object o: a mapping or a descriptor.
Holders(o) == {s \in Slots : HeldObj(s) = o \/ slot[s].fd = o}
EntryHolders(o) ==
    {r \in UNION {resources[k] : k \in SetVars} : r.base > 0 /\ ObjAt(mm, 1, r.base) = o}

\* C2: the storage of an object exists while a mapping of it (or its name) exists,
\* and an object whose creator was destroyed is unlinked and lives only as long as
\* some accessor still holds it: no object outlives all of its Regions.
C2_StorageLifetime ==
    \A o \in ObjIds :
        /\ (objs[o].linked \/ \E m \in mm : m.obj = o) => objs[o].live
        /\ ~objs[o].live => (objs[o] = FreeObj /\ Holders(o) = {})
        /\ (objs[o].live /\ objs[o].cdead) =>
               (~objs[o].linked /\ Holders(o) \cup EntryHolders(o) # {})

C2_Witness ==
    /\ last.op = "dtor" /\ last.a \in AccessorSlots
    /\ \A o \in ObjIds : ~objs[o].live
    /\ \A s \in Slots : slot[s].pc = "none"
    /\ \A p \in Procs : alive[p]

\* C3: the destructor of an accessor removes the accessor's own mapping and nothing
\* else: every name stays linked to the object it was linked to, the objects keep
\* their size and bytes, and all other mappings and variables are unchanged.
C3_DestroyedAccessor(s) ==
    /\ slot[s].pc = "live" /\ slot'[s].pc = "none" /\ alive'[SlotProc(s)]
C3_AccessorDtorFrame ==
    [][\A s \in AccessorSlots : C3_DestroyedAccessor(s) =>
          /\ mm' = mm \ {m \in mm : m.proc = SlotProc(s) /\ m.base = slot[s].base}
          /\ \A o \in ObjIds : objs[o].live /\ (objs[o].linked \/ \E m \in mm' : m.obj = o)
                                 => objs'[o] = objs[o]
          /\ \A t \in Slots \ {s} : slot'[t] = slot[t]
          /\ resources' = resources /\ alive' = alive]_vars

C3_Witness ==
    /\ last.op = "dtor" /\ last.a \in AccessorSlots
    /\ slot[1].pc = "live" /\ HeldObj(1) # 0 /\ objs[HeldObj(1)].linked
    /\ \E t \in AccessorSlots : HeldObj(t) = HeldObj(1)

\* The byte that the variable in slot s reads at offset off (-1: SIGSEGV).
ReadAt(sl, ms, os, s, off) == Load(os, ms, SlotProc(s), sl[s].base + off)
\* The object behind the span of the variable in slot s, or 0.
Held(sl, ms, s) ==
    IF sl[s].pc = "live" /\ sl[s].base > 0 THEN ObjAt(ms, SlotProc(s), sl[s].base) ELSE 0

\* The step in which the wait of the accessor constructor in slot s ends without
\* the object: wait_for(1s) gave timeout.
TimedOut(s) == slot[s].pc = "opening" /\ last'.op = "timeout" /\ last'.a = s
\* The constructor reports its failure to the caller: the exception leaves the
\* constructor, the process goes on and the variable was not constructed.
FailureDelivered(s) == alive'[SlotProc(s)] /\ slot'[s] = EmptySlot

\* C1: once the creator is destroyed while accessors are mapped, the accessors go on
\* reading and writing the bytes and see each other's writes; and an accessor whose
\* construction begins after the destruction does not open that object but fails
\* with NotFound, an error its caller receives.
C1_AfterCreatorDestroyed ==
    /\ [](\A s \in AccessorSlots :
            (HeldObj(s) # 0 /\ objs[HeldObj(s)].cdead) =>
                \A off \in Offsets : off < slot[s].len =>
                    ReadAt(slot, mm, objs, s, off) = objs[HeldObj(s)].data[off])
    /\ [][\A s \in AccessorSlots :
            /\ (last'.op = "write" /\ last'.a = s /\ HeldObj(s) # 0 /\ objs[HeldObj(s)].cdead) =>
                 \A t \in AccessorSlots : Held(slot', mm', t) = HeldObj(s) =>
                     ReadAt(slot', mm', objs', t, last'.b) = last'.val
            /\ (slot[s].late /\ slot'[s].pc = "live") => ~objs[Held(slot', mm', s)].cdead
            /\ (slot[s].late /\ TimedOut(s)) => FailureDelivered(s)]_vars

\* C7: an accessor constructed on a name that was never created ends with a
\* NotFound failure that its caller receives, after at most the time of the wait;
\* a release build does not wait at all.
NeverCreated == AccessorNames \ CreatorNames
C7_NeverCreatedFailsNotFound ==
    [][\A s \in AccessorSlots :
          /\ (slot[s].name \in NeverCreated /\ TimedOut(s)) => FailureDelivered(s)
          /\ (build = "release" /\ slot[s].pc = "none" /\ slot'[s].name \in NeverCreated)
                => slot'[s].pc # "opening"]_vars

\* C5: a Region's length is the size its object was created with, for the creator and
\* for every accessor opened afterwards, and a byte stored at an offset through a
\* writable Region is the byte every Region of that object reads at that offset.
C5_SameBytes ==
    /\ [](\A s \in Slots : HeldObj(s) # 0 =>
            /\ slot[s].len = objs[HeldObj(s)].size
            /\ slot[s].name = objs[HeldObj(s)].name
            /\ \A off \in Offsets : off < slot[s].len =>
                  ReadAt(slot, mm, objs, s, off) = objs[HeldObj(s)].data[off])
    /\ [][\A s \in Slots :
            (last'.op = "write" /\ last'.a = s /\ alive'[SlotProc(s)]) =>
                \A t \in Slots : Held(slot', mm', t) = HeldObj(s) =>
                    ReadAt(slot', mm', objs', t, last'.b) = last'.val]_vars

C5_Witness ==
    /\ last.op = "write" /\ last.a = 3
    /\ HeldObj(1) # 0 /\ HeldObj(3) = HeldObj(1) /\ HeldObj(4) = HeldObj(1)
    /\ slot[4].len = MaxSize
    /\ ReadAt(slot, mm, objs, 4, last.b) = 1

\* The variables of a process that own the mapping m.
Owners(m) ==
    {s \in Slots : SlotProc(s) = m.proc /\ slot[s].pc = "live"
                   /\ slot[s].base = m.base /\ slot[s].len = m.len}
\* The mapping that region r of process p owns (none for a null or failed base).
OwnMaps(ms, p, r) == {m \in ms : r.base > 0 /\ m.proc = p /\ m.base = r.base}
\* What the destructor of the Region in slot s does to mappings and names, when
\* the process goes on: its own mapping is gone, a creator's name is unlinked
\* (once: the object is never linked again), and no other name is touched.
Released(s) ==
    LET p == SlotProc(s)
        own == OwnMaps(mm, p, slot[s])
    IN /\ mm' = mm \ own
       /\ (SlotCreat(s) /\ own # {}) => Lookup(objs', slot[s].name) = 0
       /\ \A o \in ObjIds :
            objs'[o] # objs[o] =>
                /\ objs[o].live
                /\ \/ objs'[o] = FreeObj /\ o = Held(slot, mm, s)
                   \/ /\ SlotCreat(s) /\ slot[s].base # NullPtr
                      /\ objs[o].name = slot[s].name /\ ~objs'[o].linked

\* C4: over move construction, swap and assignment every mapping has exactly one
\* owning Region; a move or a swap unmaps and unlinks nothing, a move leaves its
\* source with a null base whose destructor does nothing; a mapping is unmapped, and
\* a creator's name unlinked, only in the step that destroys or assigns over the
\* Region that owns it; after a = std::move(b) the Region a held is released and a
\* has the base, length and name of b.
C4_OwnershipTransfer ==
    /\ [](/\ \A m \in mm : Cardinality(Owners(m)) = 1
          /\ \A s \in Slots : (slot[s].pc = "live" /\ slot[s].base > 0) =>
                 OwnMaps(mm, SlotProc(s), slot[s]) # {}
          /\ \A s \in Slots : (slot[s].pc = "live" /\ slot[s].base = NullPtr) =>
                 slot[s].len = 0)
    /\ [][\A s, t \in Slots :
            /\ (last'.op = "move" /\ last'.a = s /\ last'.b = t) =>
                 /\ mm' = mm /\ objs' = objs
                 /\ slot'[t] = slot[s] /\ slot'[s].pc = "live" /\ slot'[s].base = NullPtr
            /\ (last'.op = "swap" /\ last'.a = s /\ last'.b = t) =>
                 mm' = mm /\ objs' = objs /\ slot'[t] = slot[s] /\ slot'[s] = slot[t]
            /\ (last'.op = "assign" /\ last'.a = s /\ last'.b = t) =>
                 /\ slot'[s] = slot[t] /\ slot'[t].pc = "live" /\ slot'[t].base = NullPtr
                 /\ Released(s)
            /\ (last'.op = "dtor" /\ last'.a = s) =>
                 /\ slot'[s] = EmptySlot /\ Released(s)
                 /\ slot[s].base = NullPtr => (mm' = mm /\ objs' = objs)
            /\ (alive' = alive /\ (mm \ mm' # {} \/ \E o \in ObjIds : objs[o].linked /\ ~objs'[o].linked))
                 => last'.op \in {"dtor", "assign"}]_vars

C4_Witness ==
    /\ last.op = "assign" /\ slot[last.a].pc = "live" /\ slot[last.b].pc = "live"
    /\ HeldObj(last.a) # 0 /\ slot[last.b].base = NullPtr
    /\ Cardinality({o \in ObjIds : objs[o].live}) = 1 /\ Cardinality(mm) = 1

\* C6: the construction of a creator under a name that is in use fails with
\* AlreadyExists, an error its caller receives, and changes nothing: the object of
\* that name stays linked, with its size and its mappings, the failed attempt owns
\* no mapping, and no later step of a Region that owns no mapping unlinks a name.
C6_DuplicateNameFails ==
    [][\A s \in Slots :
          /\ (last'.op = "create" /\ last'.a = s /\ Lookup(objs, last'.name) # 0) =>
                FailureDelivered(s) /\ objs' = objs /\ mm' = mm
          /\ (last'.op \in {"dtor", "assign"} /\ last'.a = s
              /\ OwnMaps(mm, SlotProc(s), slot[s]) = {}) => objs' = objs]_vars

\* C8: the construction of a creator with size 0 fails with InvalidArgument, an
\* error its caller receives; afterwards no object of that name exists and no
\* mapping is held.
C8_ZeroSizeFails ==
    [][\A s \in Slots :
          (last'.op = "create" /\ last'.a = s /\ last'.b = 0 /\ Lookup(objs, last'.name) = 0) =>
              /\ FailureDelivered(s)
              /\ \A o \in ObjIds : ~(objs'[o].live /\ objs'[o].name = last'.name)
              /\ mm' = mm]_vars

\* The step in which allocate(size, alignment) of the allocator of kind k returns p.
Allocated(k, size, p) ==
    /\ last'.op = "allocate" /\ last'.name = k /\ last'.b = size /\ last'.val = p
    /\ alive'[1]
\* The step in which deallocate(p, size, alignment) of the allocator of kind k returns.
Deallocated(k, size, p) ==
    /\ last'.op = "deallocate" /\ last'.name = k /\ last'.b = size /\ last'.val = p
    /\ alive'[1]

\* C9: for both kinds of set, when allocate(size, alignment) with size > 0 and
\* alignment <= page size returns p, the set has gained exactly one entry, exactly
\* one entry has base p, its length is at least size and at most the page ceiling of
\* size, and every entry the set had is in it unchanged, with its mapping.
C9_AllocateAddsOneEntry ==
    [][\A k \in SetKinds, size \in Sizes \ {0}, p \in Areas :
          (Allocated(k, size, p) /\ last'.a <= PageSize) =>
             LET new == resources'[k] \ resources[k]
             IN /\ Cardinality(new) = 1 /\ resources[k] \subseteq resources'[k]
                /\ Cardinality({r \in resources'[k] : r.base = p}) = 1
                /\ \A r \in new : r.base = p /\ size <= r.len /\ r.len <= ceil_to_page_size(size)
                /\ \A r \in new : OwnMaps(mm', 1, r) # {} /\ Lookup(objs', r.name) # 0
                /\ \A j \in SetVars \ {k} : resources'[j] = resources[j]
                /\ mm \subseteq mm'
                /\ \A o \in ObjIds : objs[o].live => objs'[o] = objs[o]]_vars

C9_Witness ==
    /\ last.op = "allocate" /\ last.name = "unordered_set" /\ last.b = MaxSize /\ last.val > 0
    /\ Cardinality(resources["unordered_set"]) = 2
    /\ \E r \in resources["unordered_set"] : r.base = last.val /\ r.len = MaxSize
    /\ alive[1]

\* C10: for both kinds of set, deallocate(p, size, alignment) of a pointer p that
\* allocate(size, alignment) returned removes exactly the entry whose base is p,
\* unmaps its mapping and unlinks its name, leaves every other entry in its set, and
\* the number of entries is what it was before that allocate: one less.
C10_DeallocateRemovesEntry ==
    [][\A k \in SetKinds, size \in Sizes \ {0}, p \in Areas :
          (Deallocated(k, size, p) /\ \E r \in resources[k] : r.base = p /\ r.len = size /\ p > 0) =>
             LET r == CHOOSE x \in resources[k] : x.base = p
             IN /\ resources'[k] = resources[k] \ {r}
                /\ Cardinality(resources'[k]) = Cardinality(resources[k]) - 1
                /\ \A j \in SetVars \ {k} : resources'[j] = resources[j]
                /\ mm' = mm \ OwnMaps(mm, 1, r) /\ OwnMaps(mm, 1, r) # {}
                /\ Lookup(objs, r.name) # 0 /\ Lookup(objs', r.name) = 0
                /\ \A o \in ObjIds : (objs[o].live /\ objs[o].name # r.name) => objs'[o] = objs[o]]_vars

C10_Witness ==
    /\ last.op = "deallocate" /\ last.name = "set" /\ last.val > 0 /\ alive[1]
    /\ Cardinality(resources["set"]) = 1 /\ Cardinality(mm) = 1
    /\ \A r \in resources["set"] : r.base # last.val

\* The step in which allocate of the allocator k is called with an alignment of
\* more than a page.
LargeAlignment(k) ==
    last'.op \in {"allocate", "TooLargeAlignment"} /\ last'.name = k /\ last'.a > PageSize
\* The call failed and left the objects, the mappings, the sets and last_inserted
\* as they were.
Rejected ==
    /\ last'.op = "TooLargeAlignment" /\ alive' = alive
    /\ objs' = objs /\ mm' = mm /\ resources' = resources /\ last_inserted' = last_inserted

Found(k, obj) ==
    last'.op \in {"find_arena", "invalid_argument"} /\ last'.name = k /\ last'.a = obj

\* What a linear scan of the entries of k finds for obj.
Containing(k, obj) == {r \in resources[k] : r.base <= obj /\ obj < r.base + r.len}

\* C12: in every state of a set, the empty one included, find_arena(obj) returns
\* the entry r with base(r) <= obj < base(r) + len(r) when there is one and fails
\* with invalid_argument otherwise, as a linear scan does; it returns no Region
\* that does not contain obj.
C12_FindArena ==
    [][\A k \in SetKinds, obj \in Addrs :
          Found(k, obj) =>
             /\ alive'[1]
             /\ IF Containing(k, obj) # {}
                THEN /\ last'.op = "find_arena"
                     /\ \E r \in Containing(k, obj) : r.base = last'.val /\ r.len = last'.b
                ELSE last'.op = "invalid_argument"]_vars

\* The step in which the allocator k was move-constructed from, or swapped with,
\* the allocator j.
ResourceStep(op, k, j) == last'.op = op /\ last'.name = k /\ last'.other = j

\* C13: in an unordered set, right after a successful allocate last_inserted
\* designates the Region that allocate created, whose base is the pointer
\* returned; the move constructor and swap carry last_inserted along with the
\* entries it belongs to.
C13_LastInserted ==
    [][\A k \in HashedVars :
          /\ (last'.op = "allocate" /\ last'.name = k /\ last'.val # NullPtr) =>
                /\ last_inserted'[k] = last'.val
                /\ \E r \in resources'[k] \ resources[k] : r.base = last_inserted'[k]
          /\ \A j \in HashedVars :
                /\ ResourceStep("move", k, j) =>
                      resources'[k] = resources[j] /\ last_inserted'[k] = last_inserted[j]
                /\ ResourceStep("swap", k, j) =>
                      /\ resources'[k] = resources[j] /\ last_inserted'[k] = last_inserted[j]
                      /\ resources'[j] = resources[k] /\ last_inserted'[j] = last_inserted[k]]_vars

C13_Witness ==
    /\ last.op = "move" /\ last.name = "unordered_set_2" /\ last.other = "unordered_set"
    /\ Cardinality(resources["unordered_set_2"]) = 2
    /\ \E r \in resources["unordered_set_2"] : r.base = last_inserted["unordered_set_2"]

\* C14: move-constructing an ordered set from an unordered set of n Regions
\* leaves the source with no entry and the target with the same n Regions (names,
\* bases, lengths); no object is unlinked and no mapping removed, and find_arena
\* of the target finds each Region for each of its bytes.
C14_ConvertingMove ==
    [][\A k \in SetVars, j \in HashedVars :
          ResourceStep("convert", k, j) =>
             /\ resources'[j] = {} /\ resources'[k] = resources[j]
             /\ objs' = objs /\ mm' = mm
             /\ \A r \in resources[j], obj \in Addrs :
                   (r.base <= obj /\ obj < r.base + r.len) =>
                      find_arena_result(k, resources'[k], NullPtr, obj)
                         = {FindOutcome("region", r)}]_vars

C14_Witness ==
    /\ last.op = "convert" /\ last.name = "set" /\ last.other = "unordered_set"
    /\ resources["unordered_set"] = {} /\ Cardinality(resources["set"]) = 2
    /\ \A r \in resources["set"] : ObjAt(mm, 1, r.base) # 0 /\ objs[ObjAt(mm, 1, r.base)].linked

\* The step in which the allocator k was destroyed or assigned over.
Drained(k) == last'.op \in {"destroy", "assign"} /\ last'.name = k

\* The mappings and the objects behind the Regions that k holds.
MapsOf(k) == {m \in mm : m.proc = 1 /\ \E r \in resources[k] : r.base = m.base}
ObjsOf(k) == {m.obj : m \in MapsOf(k)}

\* C15: when a set is destroyed or assigned over, every Region it held is
\* unlinked and unmapped, and nothing else is; after the destructor and after
\* `k = {}` the set has no entry, and no Region allocated from it stays linked.
C15_DrainsRegions ==
    [][\A k \in SetVars :
          Drained(k) =>
             /\ \A r \in resources[k] :
                   Lookup(objs', r.name) = 0 /\ MapsAt(mm', 1, r.base) = {}
             /\ mm' = mm \ MapsOf(k)
             /\ \A o \in ObjIds \ ObjsOf(k) : objs'[o] = objs[o]
             /\ \A o \in ObjsOf(k) : ~objs'[o].linked
             /\ last'.other \in {"", "{}"} => resources'[k] = {}
             /\ last'.other \in SetVars => resources'[k] = resources[last'.other]]_vars

C15_Witness ==
    /\ last.op = "assign" /\ last.other = "{}" /\ last.b = 2
    /\ resources[last.name] = {} /\ mm = {} /\ \A o \in ObjIds : ~objs[o].live

\* The Region that the buffer's upstream recorded as last inserted.
LastInserted == {r \in resources[BufferUpstream] : r.base = last_inserted[BufferUpstream]}

\* C16: after any sequence of allocate, deallocate and release, the block that
\* allocate of a Monotonic_ShM_Buffer returned lies inside the Region that the
\* upstream recorded as last inserted when allocate returned.
C16_InLastInserted ==
    (alive[1] /\ buffer.op = "allocate") =>
        \E r \in LastInserted :
            r.base <= buffer.ret /\ buffer.ret + buffer.bytes <= r.base + r.len

C16_Witness ==
    /\ alive[1] /\ buffer.op = "allocate" /\ Cardinality(buffer.chunks) = 2
    /\ \E r \in LastInserted : r.base < buffer.ret /\ buffer.ret < r.base + r.len

\* The fields of std::pmr::monotonic_buffer_resource, without the last call.
BufferFields(b) == BufferCall(b, "-", 0, 0, NullPtr)

\* The step in which allocate was called with a request that does not fit in
\* what is left of the current chunk, and the Regions upstream gained by it.
DoesNotFit ==
    /\ buffer'.op \in {"allocate", "bad_alloc"} /\ alive'[1]
    /\ StdAlign(buffer, buffer'.bytes, buffer'.alignment) = NullPtr
NewRegions == resources'[BufferUpstream] \ resources[BufferUpstream]
ServedFrom(r) == r.base <= buffer'.ret /\ buffer'.ret + buffer'.bytes <= r.base + r.len

C18_DeallocateNoOp ==
    [][buffer'.op = "deallocate" =>
          /\ BufferFields(buffer') = BufferFields(buffer)
          /\ resources' = resources /\ last_inserted' = last_inserted
          /\ objs' = objs /\ mm' = mm]_vars

C18_Witness ==
    /\ alive[1] /\ buffer.op = "deallocate" /\ buffer.chunks # {}
    /\ buffer.ret + buffer.bytes = buffer.current_buf

\* C19: release() brings the buffer back to the state it was constructed in:
\* upstream has no Region, each Region it had is unlinked and unmapped, there
\* is no current chunk, and the next chunk size is the page-ceiled initial_size.
C19_ReleaseResets ==
    [][buffer'.op = "release" =>
          /\ BufferFields(buffer')
                = BufferFields(ConstructedBuffer(buffer.initial_size, buffer.growth))
          /\ buffer'.next_buffer_size = ceil_to_page_size(buffer.initial_size)
          /\ resources'[BufferUpstream] = {}
          /\ \A r \in resources[BufferUpstream] :
                Lookup(objs', r.name) = 0 /\ MapsAt(mm', 1, r.base) = {}]_vars

C19_Witness ==
    /\ alive[1] /\ buffer.op = "release" /\ buffer.bytes = 2
    /\ resources[BufferUpstream] = {} /\ mm = {}
    /\ buffer.next_buffer_size = buffer.initial_size /\ buffer.current_buf = NullPtr

\* The addresses of the block l that a pool handed out.
BlockAddrs(l) == l.ptr .. (l.ptr + l.bytes - 1)

\* C20: for every block that a ShM_Pool handed out and did not get back, and
\* every address of it, find_arena of the upstream returns a Region that contains
\* the address: upstream drops no Region that holds such a block.
C20_LiveBlocksFindable ==
    alive[1] =>
       \A l \in pool.live : \A a \in BlockAddrs(l) :
          \E r \in resources[PoolUpstream] :
             /\ find_arena_result(PoolUpstream, resources[PoolUpstream], NullPtr, a)
                   = {FindOutcome("region", r)}
             /\ r.base <= a /\ a < r.base + r.len

C20_Witness ==
    /\ alive[1] /\ pool.op = "deallocate" /\ Cardinality(pool.live) = 1
    /\ \E c \in pool.chunks : Cardinality(FreeBlocks(pool, c)) = 1
    /\ Cardinality(resources[PoolUpstream]) = 1

\* The fields of the pool resource, without the last call.
PoolFields(pl) == [pl EXCEPT !.op = "-", !.bytes = 0, !.ret = NullPtr, !.streak = 0]

\* C21: release() of a ShM_Pool, and the destructor that calls it, give every
\* chunk and every unpooled Region back to upstream: whatever blocks were handed
\* out, upstream has no entry afterwards and each Region it had is unlinked and
\* unmapped; after release() the pool is as it was constructed, ready to allocate.
C21_PoolReleaseDrains ==
    [][pool'.op \in {"release", "dtor"} =>
          /\ resources'[PoolUpstream] = {}
          /\ \A r \in resources[PoolUpstream] :
                Lookup(objs', r.name) = 0 /\ MapsAt(mm', 1, r.base) = {}
          /\ pool'.op = "release" =>
                PoolFields(pool') =
                   [PoolFields(NoPool) EXCEPT
                       !.option = pool.option,
                       !.largest_required_pool_block = pool.largest_required_pool_block,
                       !.lifo = pool.lifo]]_vars

C21_Witness ==
    /\ alive[1] /\ pool.op = "release" /\ pool.bytes = 2
    /\ resources[PoolUpstream] = {} /\ mm = {} /\ pool.largest_required_pool_block # 0

\* The pool's last two calls were a = allocate(s) for a pooled size s and then
\* deallocate(a, s).
AllocatedAndPutBack(pl) ==
    pl.op = "deallocate" /\ pl.streak = 2 /\ pl.bytes <= pl.largest_required_pool_block

\* C22: when a ShM_Pool has just served a = allocate(s) for a pooled size s and
\* then taken a back by deallocate(a, s), the next call allocate(s) returns a
\* again and leaves upstream as it is: no Region is created for it.
C22_BlockReused ==
    [][(/\ AllocatedAndPutBack(pool)
        /\ pool'.op \in {"allocate", "bad_alloc"} /\ pool'.bytes = pool.bytes)
       => /\ pool'.op = "allocate" /\ pool'.ret = pool.ret
          /\ resources' = resources /\ objs' = objs /\ mm' = mm /\ cnt' = cnt]_vars

C22_Witness ==
    /\ alive[1] /\ pool.op = "allocate" /\ pool.streak = 3
    /\ pool.bytes <= pool.largest_required_pool_block
    /\ \E c \in pool.chunks : pool.ret \in BlocksOf(c) /\ pool.ret # c.base

\* The step gave the request of the pool its own Region from upstream: one new
\* entry, at the pointer returned, that holds no other block.
Dedicated ==
    \E r \in resources'[PoolUpstream] :
       /\ r \notin resources[PoolUpstream]
       /\ resources'[PoolUpstream] = resources[PoolUpstream] \cup {r}
       /\ r.base = pool'.ret /\ r.len >= pool'.bytes
       /\ \A l \in pool'.live : l.ptr \in r.base .. (r.base + r.len - 1) => l.ptr = pool'.ret
       /\ \A c \in pool'.chunks : c.base # r.base

\* The step served the request of the pool by a block of the smallest block
\* size that holds it.
FromSizeClass ==
    \E c \in pool'.chunks :
       /\ pool'.ret \in BlocksOf(c) /\ c.block >= pool'.bytes
       /\ \A b \in PoolBlockSizes : b >= pool'.bytes => c.block <= b

\* The step gave the Region of the block back to upstream: that entry and no
\* other left the set.
GivenBack ==
    \E r \in resources[PoolUpstream] :
       /\ r.base = pool'.ret
       /\ resources'[PoolUpstream] = resources[PoolUpstream] \ {r}
       /\ Lookup(objs', r.name) = 0 /\ MapsAt(mm', 1, r.base) = {}

\* What C23 says of a step of the pool when requests above threshold bypass the
\* pools.
BypassAbove(threshold) ==
    /\ pool'.op = "allocate" => IF pool'.bytes > threshold THEN Dedicated ELSE FromSizeClass
    /\ pool'.op = "deallocate" /\ pool'.bytes > threshold => GivenBack

HeldBy(t) ==
    LET c == threads.call[t]
        l == [ptr |-> c.ptr, bytes |-> c.bytes]
    IN IF threads.pc[t] # "done" \/ c.ptr = NullPtr THEN threads.held[t]
       ELSE IF c.op = "allocate" THEN threads.held[t] \cup {l}
       ELSE threads.held[t] \ {l}

\* Thread t is in a call that is about to insert a Region into the upstream set
\* or to extract one.
InUpstream(t) ==
    \/ threads.pc[t] = "upstream"
    \/ /\ threads.pc[t] = "locked" /\ threads.call[t].op = "deallocate"
       /\ ~Pooled(pool, threads.call[t].bytes)

\* The calls of the threads of a ShM_Pool<true> exclude each other: no block is
\* held by two threads, at most one thread is between taking the mutex and
\* returning, hence at most one is about to change the upstream set, and the
\* blocks the pool handed out are those the threads hold, as after the same
\* calls made one after the other.
Serialized ==
    /\ \A t, u \in Threads : t # u =>
          /\ \A l \in HeldBy(t), k \in HeldBy(u) : l.ptr # k.ptr
          /\ ~(threads.pc[t] # "idle" /\ threads.pc[u] # "idle")
          /\ ~(InUpstream(t) /\ InUpstream(u))
    /\ \A t \in Threads :
          threads.pc[t] = "done" /\ threads.call[t].op = "deallocate" =>
             \A l \in pool.live : l.ptr # threads.call[t].ptr
    /\ (\A t \in Threads : threads.pc[t] \in {"idle", "done"}) =>
          pool.live = UNION {HeldBy(t) : t \in Threads}

\* A Region leaves the upstream set only in the deallocate of the thread that
\* holds the block it was requested for: it was an entry, it is unlinked and
\* unmapped by that step, and no other entry leaves with it.
ReleasedOnce ==
    resources'[PoolUpstream] # resources[PoolUpstream]
    /\ resources[PoolUpstream] \ resources'[PoolUpstream] # {} =>
       \E t \in Threads : \E r \in resources[PoolUpstream] :
          /\ threads.pc[t] = "locked" /\ threads'.pc[t] = "done"
          /\ threads.call[t].op = "deallocate" /\ r.base = threads.call[t].ptr
          /\ [ptr |-> r.base, bytes |-> threads.call[t].bytes] \in threads.held[t]
          /\ resources'[PoolUpstream] = resources[PoolUpstream] \ {r}
          /\ MapsAt(mm, 1, r.base) # {} /\ MapsAt(mm', 1, r.base) = {}
          /\ Lookup(objs, r.name) # 0 /\ Lookup(objs', r.name) = 0

\* C24: under every interleaving of the allocate and deallocate calls of the
\* threads of a ShM_Pool<true>, the calls take effect one after the other: no
\* block is held by two threads, no two threads change the upstream set at the
\* same time, and every Region of upstream is given back exactly once.
C24_Serialized == []Serialized /\ [][ReleasedOnce]_vars

C24_Witness ==
    /\ alive[1] /\ threads.pc[1] = "done" /\ threads.call[1].op = "deallocate"
    /\ ~Pooled(pool, threads.call[1].bytes)
    /\ threads.pc[2] = "idle" /\ threads.held[2] # {} /\ threads.held[1] # {}
    /\ \E l \in threads.held[2] : Pooled(pool, l.bytes)

\* The mappings of the process of the reader.
ReaderMaps(ms) == {m \in ms : m.proc = ReaderProc}
\* The keys of the cache: the accessors without their counters.
CacheKeys(cache) == {[name |-> e.name, base |-> e.base, len |-> e.len] : e \in cache}
\* The step is a call op of the reader.
ReaderStep(op) == reader' # reader /\ reader'.op = op

\* A read or a select_shm of a name that is in the cache maps nothing and
\* leaves the keys as they are; of a name that is not, it maps the name once and
\* inserts one entry, whose counter is 0 before read counts its Iterator.
OpensOnce ==
    ReaderStep("read") \/ ReaderStep("select_shm") =>
       IF \E e \in reader.cache : e.name = reader'.name
       THEN mm' = mm /\ CacheKeys(reader'.cache) = CacheKeys(reader.cache)
       ELSE \E e \in reader'.cache :
               /\ e.name = reader'.name
               /\ e.cnt = IF reader'.op = "read" THEN 1 ELSE 0
               /\ reader'.cache \ {e} = reader.cache
               /\ Cardinality(ReaderMaps(mm')) = Cardinality(ReaderMaps(mm)) + 1
               /\ \E m \in ReaderMaps(mm') \ ReaderMaps(mm) :
                     m.base = e.base /\ m.len = e.len /\ objs[m.obj].name = e.name

\* C25: the cache of a ShM_Reader holds at most one entry, with one mapping,
\* for a name; read and select_shm of a cached name reuse its entry and map
\* nothing, and of another name map it once and insert it with the counter 0.
C25_OneEntryPerName ==
    /\ [](alive[ReaderProc] =>
            /\ \A e, f \in reader.cache : e.name = f.name => e = f
            /\ Cardinality(ReaderMaps(mm)) = Cardinality(reader.cache)
            /\ \A e \in reader.cache :
                  Cardinality({m \in ReaderMaps(mm) : m.base = e.base}) = 1)
    /\ [][OpensOnce]_vars

C25_Witness ==
    /\ alive[ReaderProc] /\ reader.op = "read" /\ Cardinality(reader.cache) = 2
    /\ \E e \in reader.cache : e.cnt = 2 /\ e.name = reader.name
    /\ Cardinality(ReaderMaps(mm)) = 2

\* The Iterator objects alive that were made for the entry e.
BorrowsOf(rd, e) == {b \in rd.borrows : b.base = e.base}

\* C26: in every state the counter of a cache entry is the number of Iterator
\* objects alive for it, whatever reads, copies, moves and destructions of
\* Iterator objects came before; so it never passes below 0.
C26_CountsBorrows ==
    alive[ReaderProc] =>
       \A e \in reader.cache : e.cnt = Cardinality(BorrowsOf(reader, e))

\* What C27 says of gc_: it erases the entries whose counter is 0 and only
\* them, returns their number and unmaps each of them; an entry that an
\* Iterator alive refers to stays.
GcErasesIdle ==
    ReaderStep("gc") =>
       LET gone == reader.cache \ reader'.cache
       IN /\ reader'.cache \subseteq reader.cache
          /\ gone = {e \in reader.cache : e.cnt = 0}
          /\ reader'.ret = Cardinality(gone)
          /\ \A e \in gone :
                /\ Cardinality({m \in ReaderMaps(mm) : m.base = e.base}) = 1
                /\ {m \in ReaderMaps(mm') : m.base = e.base} = {}
          /\ \A e \in reader.cache : BorrowsOf(reader, e) # {} => e \in reader'.cache

\* C27: gc_ erases exactly the entries whose counter is 0, returns their number
\* and unmaps each once, and keeps every entry that an Iterator alive refers to:
\* as long as the process of the reader runs, every Iterator alive refers to
\* an entry of the cache whose region is mapped.
C27_GcKeepsBorrowed ==
    /\ [][GcErasesIdle]_vars
    /\ [](alive[ReaderProc] =>
            \A b \in reader.borrows :
               /\ \E e \in reader.cache : e.base = b.base /\ e.name = b.name
               /\ MapsAt(mm, ReaderProc, b.base) # {})

\* C28: read<T>(name, offset) returns an Iterator only when
\* offset + sizeof(T) is at most the length of the region, and then one that
\* points to the base of the mapping of name plus offset; a read beyond the
\* length fails and changes no counter.
C28_ReadInBounds ==
    [][ReaderStep("read") =>
          \E e \in reader'.cache :
             /\ e.name = reader'.name
             /\ reader'.off + reader'.size <= e.len
             /\ reader'.ret = e.base + reader'.off]_vars

\* The characters of the string s.
Chars(s) == {SubSeq(s, i, i) : i \in 1 .. Len(s)}
\* The length, terminator included, that the test of the generator asserts.
NameLength == 248
NameChars == Chars("ABCDEFGHIJKLMNOPQRSTUVWXYZabcdefghijklmnopqrstuvwxyz0123456789._-")

\* C29: every name that generate_shm_UUName returns, whatever the counter was,
\* is exactly 248 characters long, begins with "/", has no other "/" and only
\* characters of [A-Za-z0-9._-].
C29_Name248 ==
    last.op = "name" =>
       /\ Len(last.name) = NameLength
       /\ SubSeq(last.name, 1, 1) = "/"
       /\ Chars(SubSeq(last.name, 2, Len(last.name))) \subseteq NameChars

\* C30: a name that generate_shm_UUName returns differs from every name that
\* an earlier call in the process returned, however many calls were made and
\* from whichever thread.
C30_NamesDiffer ==
    (last.op = "name" /\ last.other # "") => last.name # last.other

\* The bytes of the name field of the descriptor that ipc-writer stores.
DescriptorName == 24
\* One byte as a character; the byte 0 ends a C string.
Byte(b) == IF b = 0 THEN "" ELSE "\\" \o ToString(b)
RECURSIVE OffsetByte(_, _)
\* The byte k of a std::size_t, the lowest being byte 0.
OffsetByte(offset, k) == IF k = 0 THEN offset % 256 ELSE OffsetByte(offset \div 256, k - 1)
\* (std::pair<std::array<char, 24>, std::size_t>&)descriptor[0] = {name, offset}:
\* the first 24 bytes of name.c_str(), then the offset, lowest byte first.
descriptor(name, offset) ==
    [i \in 1 .. (DescriptorName + SizeofSizeT) |->
        IF i <= DescriptorName
        THEN (IF i <= Len(name) THEN SubSeq(name, i, i) ELSE "")
        ELSE Byte(OffsetByte(offset, i - DescriptorName - 1))]
RECURSIVE CStr(_, _)
\* The C string that begins at the byte i of bytes: it ends before the next 0.
CStr(bytes, i) ==
    IF i > Len(bytes) \/ bytes[i] = "" THEN "" ELSE bytes[i] \o CStr(bytes, i + 1)

\* C31: every name that generate_shm_UUName returns is 23 bytes long, and the
\* C string that a consumer reads from the descriptor's name field is that
\* name, whatever the offset that is stored behind it.
C31_NameFitsDescriptor ==
    last.op = "name" =>
       /\ Len(last.name) = DescriptorName - 1
       /\ \A offset \in Offsets : CStr(descriptor(last.name, offset), 1) = last.name

(***************************************************************************)
(* ceil_to_page_size applied to every std::size_t, and to its own result.  *)
(***************************************************************************)
\* ceil_to_page_size(min_length), called by the program directly.
Ceil(min_length) ==
    /\ Effect(slot, mm, objs, resources, last_inserted, {},
              Op("ceil", min_length, min_length, ceil_to_page_size(min_length)))
    /\ UNCHANGED <<cnt, buffer, pool, threads, reader>>

\* ceil_to_page_size(ceil_to_page_size(n)): b keeps the n of the inner call.
CeilOfCeil ==
    /\ last.op = "ceil"
    /\ Effect(slot, mm, objs, resources, last_inserted, {},
              Op("ceil", last.val, last.b, ceil_to_page_size(last.val)))
    /\ UNCHANGED <<cnt, buffer, pool, threads, reader>>

NextCeil ==
    \/ \E min_length \in 0 .. (SizeMod - 1) : Ceil(min_length)
    \/ CeilOfCeil

SpecCeil == InitSet /\ [][NextCeil]_vars

\* r is the smallest multiple of the page size that is not below n.
SmallestMultiple(n, r) == r % PageSize = 0 /\ n <= r /\ r < n + PageSize

\* C32: for every n of std::size_t, ceil_to_page_size(n) is the smallest
\* multiple of the page size that is not below n; so 0 gives 0, a multiple gives
\* itself, and the result gives itself.
C32_CeilEverySize ==
    last.op = "ceil" =>
       /\ SmallestMultiple(last.a, last.val)
       /\ ceil_to_page_size(last.val) = last.val

\* C32, amended: for every n up to the largest multiple of the page size that
\* std::size_t holds, ceil_to_page_size(n) is the smallest multiple of the page
\* size that is not below n; for a larger n it is 0.  The result of a call
\* gives itself.
C32_CeilUpToLargestMultiple ==
    last.op = "ceil" =>
       /\ IF last.a <= SizeMod - PageSize
          THEN SmallestMultiple(last.a, last.val)
          ELSE last.val = 0
       /\ ceil_to_page_size(last.val) = last.val

\* A size that is no multiple is rounded up to the largest multiple, and the
\* function is applied to that result again.
C32_Witness ==
    /\ last.op = "ceil" /\ last.a = SizeMod - PageSize /\ last.val = last.a
    /\ last.b % PageSize # 0 /\ last.b < last.a

(***************************************************************************)
(* A Monotonic_ShM_Buffer and a ShM_Pool side by side, each with its own   *)
(* upstream.                                                               *)
(***************************************************************************)
NextUpstream ==
    \/ \E g \in GrowthFactors : Monotonic_ShM_Buffer(1, g)
    \/ \E z \in {1, MaxSize + 1} : Monotonic_do_allocate(z, 1)
    \/ Monotonic_release
    \/ Monotonic_dtor
    \/ ShM_Pool(PageSize, FALSE) /\ UNCHANGED threads
    \/ \E z \in {1, MaxSize + 1} : Pool_do_allocate(z, 1) /\ UNCHANGED threads
    \/ \E area \in Addrs, z \in {1, MaxSize + 1} :
          Pool_do_deallocate(area, z, 1) /\ UNCHANGED threads
    \/ Pool_release /\ UNCHANGED threads
    \/ Pool_dtor /\ UNCHANGED threads

SpecUpstream == InitDebug /\ [][NextUpstream]_vars

\* What the buffer and the pool give back to their upstreams sooner or later.
HeldUpstream ==
    {[k |-> BufferUpstream, base |-> c.base, size |-> c.size] : c \in buffer.chunks}
    \cup {[k |-> PoolUpstream, base |-> c.base, size |-> c.size] : c \in PoolRegions(pool)}

\* A step in which the buffer or the pool deallocates to its upstream.
GivesBack ==
    \/ buffer' # buffer /\ buffer'.op \in {"release", "dtor"}
    \/ pool' # pool /\ pool'.op \in {"release", "dtor", "deallocate"}

\* C33: every Region that a Monotonic_ShM_Buffer or a ShM_Pool holds of its
\* upstream is held with the size it was requested with, so that the assertion
\* size <= std::size(shm) <= ceil_to_page_size(size) of do_deallocate holds
\* when the Region is given back, and no release, destruction or deallocate of
\* theirs ends the process.
C33_GivenBackWithTheirSize ==
    /\ [](alive[1] =>
            \A h \in HeldUpstream : \E x \in resources[h.k] :
               x.base = h.base /\ x.len = h.size /\ SizeAsserted(x, h.size))
    /\ [][GivesBack => alive'[1]]_vars

\* A buffer and a pool that each held a Region of its upstream have released.
C33_Witness ==
    /\ alive[1] /\ Cardinality(buffer.chunks) = 0 /\ buffer.op = "release" /\ buffer.bytes >= 1
    /\ pool.op = "release" /\ pool.bytes >= 1

\* C34: in a build with assertions, do_deallocate of a pointer that is the base
\* of no entry of the set is reported, that is the failed check ends the
\* process, and it unlinks no object and unmaps nothing before.
C34_ForeignPointerReported ==
    [][\A k \in SetKinds, size \in Sizes \ {0}, p \in Areas :
          (/\ last'.op = "deallocate" /\ last'.name = k /\ last'.b = size /\ last'.val = p
           /\ last' # last /\ build = "debug"
           /\ \A r \in resources[k] : r.base # p) =>
             ~alive'[1] /\ objs' = objs]_vars

\* The upstream Region that holds the whole block l.
RegionOfBlock(l) ==
    {x \in resources[BufferUpstream] : x.base <= l.ptr /\ l.ptr + l.bytes <= x.base + x.len}

Creator_open(s, name, size) ==
    /\ alive[SlotProc(s)] /\ SlotCreat(s) /\ slot[s].pc = "none"
    /\ Lookup(objs, name) # 0 \/ \E o \in ObjIds : ~objs[o].live
    /\ LET opened == ShmOpenCreat(objs, name)
       IN IF opened.fd = BadFd
          THEN \E out \in MapCreator(opened.objs, mm, SlotProc(s), opened.fd, name, size, build) :
                 IF out.abort
                 THEN Effect(slot, mm, out.objs, resources, last_inserted, {SlotProc(s)},
                             OpCreate(s, name, size))
                 ELSE Effect([slot EXCEPT ![s] = LiveSlot(out.reg)], out.mm, out.objs,
                             resources, last_inserted, {}, OpCreate(s, name, size))
          ELSE Effect([slot EXCEPT ![s] = [EmptySlot EXCEPT !.pc = "created", !.name = name,
                                                            !.fd = opened.fd, !.len = size]],
                      mm, opened.objs, resources, last_inserted, {}, OpCreate(s, name, size))
    /\ UNCHANGED <<cnt, buffer, pool, threads, reader>>

\* ::ftruncate(fd, size) of the creator.
Creator_resize(s) ==
    /\ alive[SlotProc(s)] /\ slot[s].pc = "created"
    /\ Effect([slot EXCEPT ![s].pc = "resized"], mm,
              [objs EXCEPT ![slot[s].fd].size = slot[s].len],
              resources, last_inserted, {}, Op("resize", s, slot[s].len, NullPtr))
    /\ UNCHANGED <<cnt, buffer, pool, threads, reader>>

\* The rest of map_shm of the creator: assert(size), mmap, close.
Creator_map(s) ==
    /\ alive[SlotProc(s)] /\ slot[s].pc = "resized"
    /\ \E out \in MapCreator(objs, mm, SlotProc(s), slot[s].fd, slot[s].name, slot[s].len, build) :
          IF out.abort
          THEN Effect(slot, mm, out.objs, resources, last_inserted, {SlotProc(s)},
                      Op("map", s, slot[s].len, NullPtr))
          ELSE Effect([slot EXCEPT ![s] = LiveSlot(out.reg)], out.mm, out.objs,
                      resources, last_inserted, {}, Op("map", s, slot[s].len, out.reg.base))
    /\ UNCHANGED <<cnt, buffer, pool, threads, reader>>

\* One round of the loop for (struct ::stat shm; true; std::this_thread::yield())
\* of an accessor: with st_size still 0 it yields and goes round again.
Fstat(s) ==
    /\ alive[SlotProc(s)] /\ slot[s].pc = "sizing"
    /\ LET maps == MapAccessor(objs, mm, SlotProc(s), slot[s].fd, slot[s].name, SlotWritable(s))
       IN IF maps = {}
          THEN Effect(slot, mm, objs, resources, last_inserted, {}, last)
          ELSE \E out \in maps :
                  Effect([slot EXCEPT ![s] = LiveSlot(out.reg)], out.mm, objs, resources,
                         last_inserted, {}, Op("sized", s, out.reg.len, out.reg.base))
    /\ UNCHANGED <<cnt, buffer, pool, threads, reader>>

\* The process p is stopped from outside.
Kill(p) ==
    /\ alive[p]
    /\ Effect(slot, mm, objs, resources, last_inserted, {p}, Op("kill", p, 0, NullPtr))
    /\ UNCHANGED <<cnt, buffer, pool, threads, reader>>

NextRace ==
    \/ \E z \in Sizes : Creator_open(1, "/a", z)
    \/ Creator_resize(1)
    \/ Creator_map(1)
    \/ \E s \in {3, 4} : Accessor(s, "/a")
    \/ \E s \in {3, 4} : Poll(s)
    \/ \E s \in {3, 4} : Timeout(s)
    \/ \E s \in {3, 4} : Fstat(s)
    \/ \E s \in {1, 3, 4} : Destroy(s)
    \/ \E p \in Procs : Kill(p)

\* A constructor that has begun goes on while its process lives.
SpecRace ==
    /\ Init /\ [][NextRace]_vars
    /\ WF_vars(Creator_resize(1) \/ Creator_map(1))
    /\ \A s \in {3, 4} : WF_vars(Poll(s) \/ Timeout(s) \/ Fstat(s))

\* C36: the constructor of an accessor that waits for the size of its object
\* to become other than 0 ends, also when the size stays 0.
C36_SizingEnds ==
    \A s \in AccessorSlots : (slot[s].pc = "sizing") ~> (slot[s].pc # "sizing")

\* The object that the creator in slot s has made, 0 when it has none.
CreatorObj(s) ==
    IF slot[s].pc \in {"created", "resized"} THEN slot[s].fd ELSE Held(slot, mm, s)

\* C37: however the steps of a creator's constructor and of accessors'
\* constructors of the same name interleave, an accessor that is constructed
\* maps an object of that name with its whole size, which is not 0 and is the
\* size that the creator of that object asked for.
C37_AccessorSeesWholeSize ==
    \A t \in AccessorSlots :
       (alive[SlotProc(t)] /\ slot[t].pc = "live") =>
          LET o == Held(slot, mm, t)
          IN /\ o # 0 /\ objs[o].live /\ objs[o].name = slot[t].name
             /\ slot[t].len # 0 /\ slot[t].len = objs[o].size
             /\ \A s \in Slots \ AccessorSlots :
                   (alive[SlotProc(s)] /\ CreatorObj(s) = o) =>
                      slot[s].pc \in {"resized", "live"} /\ slot[s].len = slot[t].len

\* An accessor that found the size 0 at first is constructed while the creator
\* has resized the object and not yet mapped it.
C37_Witness ==
    /\ last.op = "sized" /\ slot[last.a].pc = "live" /\ alive[SlotProc(last.a)]
    /\ slot[1].pc = "resized" /\ slot[1].fd = Held(slot, mm, last.a)
    /\ slot[1].len = MaxSize

\* C38: whenever find_arena of an allocator with a hashed set reads
\* *last_inserted, last_inserted points to a Region that is an element of the
\* set at that time.
C38_LastInsertedIsAnEntry ==
    [][\A k \in HashedVars :
          (last'.op \in {"find_arena", "invalid_argument"} /\ last'.name = k /\ last' # last) =>
             \E x \in resources[k] : x.base = last_inserted[k]]_vars

(***************************************************************************)
(* ShM_Pool<true>::upstream_resource()->find_arena(p) next to allocate and *)
(* deallocate of other threads.  upstream_resource() hands out the         *)
(* ShM_Resource<std::set> itself, and find_arena takes no mutex: a lookup  *)
(* during which another thread inserts into the set or extracts from it is *)
(* a data race.                                                            *)
(***************************************************************************)
\* Thread t begins find_arena(l.ptr) for a block l that it holds: it reads
\* the set as it is now.
Lookup_begin(t, l) ==
    /\ alive[1] /\ pool.largest_required_pool_block # 0
    /\ threads.pc[t] = "idle" /\ l \in threads.held[t]
    /\ threads' = [threads EXCEPT !.pc[t] = "lookup",
                                  !.call[t] = [op |-> "find_arena", bytes |-> l.bytes,
                                               ptr |-> l.ptr,
                                               seen |-> resources[PoolUpstream]]]
    /\ ThreadStep

\* What a lookup returns that went on while the set rs was modified: undefined.
RacedLookup(rs) ==
    {FindOutcome("crash", Region(NullPtr, 0, "")),
     FindOutcome("invalid_argument", Region(NullPtr, 0, ""))}
    \cup {FindOutcome("region", x) : x \in rs}

\* find_arena of thread t returns.
Lookup_end(t) ==
    LET c == threads.call[t]
        rs == resources[PoolUpstream]
    IN
    /\ alive[1] /\ threads.pc[t] = "lookup"
    /\ \E out \in IF rs # c.seen THEN RacedLookup(rs)
                  ELSE find_arena_result(PoolUpstream, rs, NullPtr, c.ptr) :
          Effect(slot, mm, objs, resources, last_inserted,
                 IF out.kind = "crash" THEN {1} ELSE {}, OpFind(PoolUpstream, c.ptr, out))
    /\ threads' = [threads EXCEPT !.pc[t] = "idle", !.call[t] = NoCall]
    /\ UNCHANGED <<cnt, buffer, pool, reader>>

\* Two threads that allocate from one ShM_Pool<true> and deallocate to it; the
\* first one also looks its blocks up in the upstream.
NextLookup ==
    \/ ShM_Pool(PageSize, FALSE) /\ UNCHANGED threads
    \/ \E t \in Threads, z \in SyncBytes : Sync_allocate(t, z)
    \/ \E t \in Threads : \E l \in threads.held[t] : Sync_deallocate(t, l)
    \/ \E t \in Threads : Sync_find(t)
    \/ \E t \in Threads : Sync_take(t)
    \/ \E t \in Threads : Sync_upstream(t)
    \/ \E t \in Threads : Sync_put(t)
    \/ \E t \in Threads : Sync_return(t)
    \/ \E l \in threads.held[1] : Lookup_begin(1, l)
    \/ Lookup_end(1)

SpecLookup == InitDebug /\ [][NextLookup]_vars

\* C39: find_arena(p) through upstream_resource() of a ShM_Pool<true>, for a
\* block p that the calling thread holds, returns the Region that contains p,
\* whatever other threads allocate or deallocate meanwhile.
C39_LookupFindsRegion ==
    [][\A t \in Threads :
          (threads.pc[t] = "lookup" /\ threads'.pc[t] = "idle") =>
             /\ alive'[1] /\ last'.op = "find_arena"
             /\ last'.val <= threads.call[t].ptr
             /\ threads.call[t].ptr < last'.val + last'.b]_vars

\* A call of select_shm or read by the reader: the step that changes the
\* reader, or ends its process.
ReaderCalled(name) ==
    /\ alive[ReaderProc]
    /\ reader' # reader \/ ~alive'[ReaderProc]
    /\ reader'.name = name
    /\ reader'.op \in {"select_shm", "read", "terminate", "NotFound"}

\* C40: a select_shm or read of a name that is neither cached nor the name of
\* an object that can be opened gives the caller a NotFound failure: the
\* process of the reader goes on, no entry is inserted in the cache and no
\* Iterator is counted.
C40_MissingNameLeavesCacheAsBefore ==
    [][\A name \in ReaderNames :
          (/\ ReaderCalled(name)
           /\ \A e \in reader.cache : e.name # name
           /\ Lookup(objs, name) = 0)
          => /\ alive'[ReaderProc]
             /\ reader'.op = "NotFound"
             /\ reader'.cache = reader.cache
             /\ reader'.borrows = reader.borrows]_vars
====
